---- MODULE Spec2Model ----
(***************************************************************************)
(* Model of the publication-rankings plugin: the manual override store     *)
(* (ManualOverrides), the database registry (DatabaseRegistry), the title  *)
(* matchers (MatchingUtils, SJRDatabase, COREDatabase) and the resolution  *)
(* of a title through overrides and registered databases.                  *)
(*                                                                         *)
(* A JavaScript string is a sequence of one-character strings; rank and id *)
(* strings that the code never takes apart are plain strings.              *)
(***************************************************************************)
EXTENDS Integers, Sequences, FiniteSets, TLC

VARIABLES
    overrides,     \* ManualOverrides.overrides: a Map, as its entries in insertion order
    prefStore,     \* the value of the preference 'manualOverrides' (the persisted JSON text)
    databases,     \* DatabaseRegistry.databases: a Map, as its entries in insertion order
    prefFlags,     \* the boolean preferences getPref(db.prefKey) reads
    lastCall,      \* the handler call that completed last, with its arguments and outcome
    pc,            \* per logical caller: where its asynchronous call is suspended
    local,         \* per logical caller: the locals of its suspended call
    query,         \* the input of a matcher call: title and reference table
    answer         \* the result of the matcher call

vars == <<overrides, prefStore, databases, prefFlags, lastCall, pc, local, query, answer>>

(***************************************************************************)
(* JavaScript values                                                       *)
(***************************************************************************)
undefined == "<undefined>"
null == "<null>"

\* ToBoolean of a string-or-absent value: undefined, null and "" are falsy.
Truthy(v) == v # undefined /\ v # null /\ v # ""

(***************************************************************************)
(* Characters and strings                                                  *)
(***************************************************************************)
UpperChars == <<"A","B","C","D","E","F","G","H","I","J","K","L","M",
                "N","O","P","Q","R","S","T","U","V","W","X","Y","Z">>
LowerChars == <<"a","b","c","d","e","f","g","h","i","j","k","l","m",
                "n","o","p","q","r","s","t","u","v","w","x","y","z">>
DigitChars == <<"0","1","2","3","4","5","6","7","8","9">>

Range(s) == { s[i] : i \in 1..Len(s) }

IsUpper(c) == c \in Range(UpperChars)
IsLower(c) == c \in Range(LowerChars)
IsLetter(c) == IsUpper(c) \/ IsLower(c)
IsDigit(c) == c \in Range(DigitChars)
\* the regular expression class \w
IsWordChar(c) == IsLetter(c) \/ IsDigit(c) \/ c = "_"
\* the regular expression class \s, and what String.prototype.trim strips
IsSpace(c) == c \in {" ", "\t", "\n"}

toLowerCaseChar(c) ==
    IF IsUpper(c) THEN LowerChars[CHOOSE i \in 1..Len(UpperChars) : UpperChars[i] = c] ELSE c

toLowerCase(s) == [i \in 1..Len(s) |-> toLowerCaseChar(s[i])]

SetMin(S) == CHOOSE x \in S : \A y \in S : x <= y
SetMax(S) == CHOOSE x \in S : \A y \in S : x >= y

trim(s) ==
    LET keep == { i \in 1..Len(s) : ~IsSpace(s[i]) }
    IN  IF keep = {} THEN <<>> ELSE SubSeq(s, SetMin(keep), SetMax(keep))

\* s from position i (1-based) to its end
From(s, i) == SubSeq(s, i, Len(s))

\* lit occurs in s at position i
StartsWithAt(s, i, lit) ==
    /\ i >= 1
    /\ i + Len(lit) - 1 <= Len(s)
    /\ SubSeq(s, i, i + Len(lit) - 1) = lit

\* the same, ignoring case (a literal under the regular expression flag i)
StartsWithAtI(s, i, lit) == StartsWithAt(toLowerCase(s), i, toLowerCase(lit))

\* String.prototype.indexOf(needle) !== -1
Contains(hay, needle) ==
    \E i \in 1..(Len(hay) - Len(needle) + 1) : SubSeq(hay, i, i + Len(needle) - 1) = needle

\* the regular expression assertion \b before position i (between s[i-1] and s[i])
WordBoundary(s, i) ==
    LET before == i > 1 /\ i - 1 <= Len(s) /\ IsWordChar(s[i - 1])
        after  == i >= 1 /\ i <= Len(s) /\ IsWordChar(s[i])
    IN  before # after

\* the first position >= i of s that does not satisfy the class, Len(s)+1 if none
RECURSIVE SkipSpaces(_, _)
SkipSpaces(s, i) == IF i <= Len(s) /\ IsSpace(s[i]) THEN SkipSpaces(s, i + 1) ELSE i
RECURSIVE SkipLetters(_, _)
SkipLetters(s, i) == IF i <= Len(s) /\ IsLetter(s[i]) THEN SkipLetters(s, i + 1) ELSE i
RECURSIVE SkipDigits(_, _)
SkipDigits(s, i) == IF i <= Len(s) /\ IsDigit(s[i]) THEN SkipDigits(s, i + 1) ELSE i

\* String.prototype.replace(/\s+/g, ' ')
RECURSIVE CollapseSpaces(_)
CollapseSpaces(s) ==
    IF s = <<>> THEN <<>>
    ELSE IF IsSpace(s[1]) THEN <<" ">> \o CollapseSpaces(From(s, SkipSpaces(s, 1)))
    ELSE <<s[1]>> \o CollapseSpaces(Tail(s))

\* String.prototype.split(' '): the pieces between single spaces
RECURSIVE split(_)
split(s) ==
    LET sp == { i \in 1..Len(s) : s[i] = " " }
    IN  IF sp = {} THEN <<s>>
        ELSE <<SubSeq(s, 1, SetMin(sp) - 1)>> \o split(From(s, SetMin(sp) + 1))

(***************************************************************************)
(* MatchingUtils.normalizeString                                           *)
(***************************************************************************)
\* .replace(/&/g, 'and')
RECURSIVE ReplaceAmpersand(_)
ReplaceAmpersand(s) ==
    IF s = <<>> THEN <<>>
    ELSE (IF s[1] = "&" THEN <<"a","n","d">> ELSE <<s[1]>>) \o ReplaceAmpersand(Tail(s))

LitTelecom == <<"t","e","l","e","c","o","m">>
LitUnication == <<"u","n","i","c","a","t","i","o","n">>
LitCommunications == <<"c","o","m","m","u","n","i","c","a","t","i","o","n","s">>

\* /\btelecomm?unications?\b/ matched at position i: the position after the match, 0 if none
TelecomMatchEnd(s, i) ==
    IF ~(WordBoundary(s, i) /\ StartsWithAt(s, i, LitTelecom)) THEN 0
    ELSE LET j == i + Len(LitTelecom)
             k == IF j <= Len(s) /\ s[j] = "m" THEN j + 1 ELSE j
         IN  IF ~StartsWithAt(s, k, LitUnication) THEN 0
             ELSE LET e == k + Len(LitUnication)
                      f == IF e <= Len(s) /\ s[e] = "s" THEN e + 1 ELSE e
                  IN  IF WordBoundary(s, f) THEN f ELSE 0

\* .replace(/\btelecomm?unications?\b/g, 'communications'), from position i on
RECURSIVE ReplaceTelecomFrom(_, _)
ReplaceTelecomFrom(s, i) ==
    IF i > Len(s) THEN <<>>
    ELSE LET e == TelecomMatchEnd(s, i)
         IN  IF e > 0 THEN LitCommunications \o ReplaceTelecomFrom(s, e)
             ELSE <<s[i]>> \o ReplaceTelecomFrom(s, i + 1)

\* .replace(/[^\w\s]/g, ' ')
ReplaceNonWord(s) == [i \in 1..Len(s) |-> IF IsWordChar(s[i]) \/ IsSpace(s[i]) THEN s[i] ELSE " "]

\* normalizeString with the trim applied before the replacements
normalizeString_trimFirst(str) ==
    CollapseSpaces(ReplaceNonWord(ReplaceTelecomFrom(ReplaceAmpersand(trim(toLowerCase(str))), 1)))

normalizeString(str) ==
    trim(CollapseSpaces(ReplaceNonWord(ReplaceTelecomFrom(ReplaceAmpersand(toLowerCase(str)), 1))))

(***************************************************************************)
(* MatchingUtils.extractAcronym                                            *)
(***************************************************************************)
RECURSIVE SkipAcronymChars(_, _)
SkipAcronymChars(s, i) ==
    IF i <= Len(s) /\ (IsUpper(s[i]) \/ IsDigit(s[i]) \/ s[i] = "&")
    THEN SkipAcronymChars(s, i + 1) ELSE i

\* /\(([A-Z][A-Z0-9&]+)\)/ matched at position i
AcronymAt(s, i) ==
    /\ i + 3 <= Len(s)
    /\ s[i] = "("
    /\ IsUpper(s[i + 1])
    /\ SkipAcronymChars(s, i + 2) > i + 2
    /\ SkipAcronymChars(s, i + 2) <= Len(s)
    /\ s[SkipAcronymChars(s, i + 2)] = ")"

\* The first match's group, or the empty string where the code returns null (a
\* match is never empty, and the caller only tests the result for truthiness).
extractAcronym(title) ==
    LET at == { i \in 1..Len(title) : AcronymAt(title, i) }
    IN  IF at = {} THEN <<>>
        ELSE SubSeq(title, SetMin(at) + 1, SkipAcronymChars(title, SetMin(at) + 2) - 1)

(***************************************************************************)
(* MatchingUtils.cleanConferenceTitle                                      *)
(***************************************************************************)
LitProceedingsOfThe == <<"P","r","o","c","e","e","d","i","n","g","s"," ","o","f"," ","t","h","e">>
LitAnnual == <<"A","n","n","u","a","l">>
OrdinalSuffixes == { <<"s","t">>, <<"n","d">>, <<"r","d">>, <<"t","h">> }

\* .replace(/^Proceedings of the\s+/gi, '')
StripProceedings(s) ==
    LET w == Len(LitProceedingsOfThe) + 1
    IN  IF StartsWithAtI(s, 1, LitProceedingsOfThe) /\ SkipSpaces(s, w) > w
        THEN From(s, SkipSpaces(s, w)) ELSE s

\* \d{4} at position i
FourDigitsAt(s, i) == i + 3 <= Len(s) /\ \A k \in i..(i + 3) : IsDigit(s[k])

\* .replace(/^[A-Z]+\s+\d{4}\s+-\s+/gi, '')
StripCodeYearPrefix(s) ==
    LET l == SkipLetters(s, 1)
        w == SkipSpaces(s, l)
        d == w + 4
        x == SkipSpaces(s, d)
        y == SkipSpaces(s, x + 1)
    IN  IF /\ l > 1
           /\ w > l
           /\ FourDigitsAt(s, w)
           /\ x > d
           /\ x <= Len(s) /\ s[x] = "-"
           /\ y > x + 1
        THEN From(s, y) ELSE s

\* .replace(/\b\d{4}\b/g, ''), from position i on
RECURSIVE RemoveYearsFrom(_, _)
RemoveYearsFrom(s, i) ==
    IF i > Len(s) THEN <<>>
    ELSE IF WordBoundary(s, i) /\ FourDigitsAt(s, i) /\ WordBoundary(s, i + 4)
         THEN RemoveYearsFrom(s, i + 4)
         ELSE <<s[i]>> \o RemoveYearsFrom(s, i + 1)

\* /\b\d{1,2}(st|nd|rd|th)\s+(Annual\s+)?/i matched at position i: the position
\* after the match, 0 if none
OrdinalMatchEnd(s, i) ==
    IF ~(WordBoundary(s, i) /\ i <= Len(s) /\ IsDigit(s[i])) THEN 0
    ELSE LET j == IF i + 1 <= Len(s) /\ IsDigit(s[i + 1]) THEN i + 2 ELSE i + 1
             k == SkipSpaces(s, j + 2)
             a == k + Len(LitAnnual)
         IN  IF ~(\E suf \in OrdinalSuffixes : StartsWithAtI(s, j, suf)) \/ k = j + 2 THEN 0
             ELSE IF StartsWithAtI(s, k, LitAnnual) /\ SkipSpaces(s, a) > a
                  THEN SkipSpaces(s, a) ELSE k

\* .replace(/\b\d{1,2}(st|nd|rd|th)\s+(Annual\s+)?/gi, ''), from position i on
RECURSIVE RemoveOrdinalsFrom(_, _)
RemoveOrdinalsFrom(s, i) ==
    IF i > Len(s) THEN <<>>
    ELSE LET e == OrdinalMatchEnd(s, i)
         IN  IF e > 0 THEN RemoveOrdinalsFrom(s, e)
             ELSE <<s[i]>> \o RemoveOrdinalsFrom(s, i + 1)

\* .replace(/\bAnnual\s+/gi, ''), from position i on
RECURSIVE RemoveAnnualFrom(_, _)
RemoveAnnualFrom(s, i) ==
    IF i > Len(s) THEN <<>>
    ELSE LET a == i + Len(LitAnnual)
         IN  IF WordBoundary(s, i) /\ StartsWithAtI(s, i, LitAnnual) /\ SkipSpaces(s, a) > a
             THEN RemoveAnnualFrom(s, SkipSpaces(s, a))
             ELSE <<s[i]>> \o RemoveAnnualFrom(s, i + 1)

\* /\s+-\s+[A-Z]+\s+'?\d{2,4}\s*$/i matched at position i
TrailingCodeAt(s, i) ==
    LET j == SkipSpaces(s, i)
        k == SkipSpaces(s, j + 1)
        l == SkipLetters(s, k)
        m == SkipSpaces(s, l)
        q == IF m <= Len(s) /\ s[m] = "'" THEN m + 1 ELSE m
        d == SkipDigits(s, q)
    IN  /\ j > i
        /\ j <= Len(s) /\ s[j] = "-"
        /\ k > j + 1
        /\ l > k
        /\ m > l
        /\ d - q >= 2 /\ d - q <= 4
        /\ SkipSpaces(s, d) = Len(s) + 1

\* .replace(/\s+-\s+[A-Z]+\s+'?\d{2,4}\s*$/gi, '')
StripTrailingCode(s) ==
    LET at == { i \in 1..Len(s) : TrailingCodeAt(s, i) }
    IN  IF at = {} THEN s ELSE SubSeq(s, 1, SetMin(at) - 1)

cleanConferenceTitle(title) ==
    trim(CollapseSpaces(StripTrailingCode(RemoveAnnualFrom(RemoveOrdinalsFrom(
        RemoveYearsFrom(StripCodeYearPrefix(StripProceedings(title)), 1), 1), 1))))

(***************************************************************************)
(* JavaScript objects: own string-keyed properties in enumeration order    *)
(* (array-index keys ascending first, then the others in insertion order). *)
(* An object, like a Map, is the sequence of its <<key, value>> entries.   *)
(***************************************************************************)
Keys(m) == [i \in 1..Len(m) |-> m[i][1]]
Has(m, k) == \E i \in 1..Len(m) : m[i][1] = k
Lookup(m, k) == m[CHOOSE i \in 1..Len(m) : m[i][1] = k][2]
\* the entries as a mapping, without their order
Pairs(m) == { <<m[i][1], m[i][2]>> : i \in 1..Len(m) }

\* a canonical array index: "0", or digits without a leading zero
IsArrayIndex(k) ==
    /\ Len(k) > 0
    /\ \A i \in 1..Len(k) : IsDigit(k[i])
    /\ (k[1] # "0" \/ Len(k) = 1)

DigitValue(c) == (CHOOSE i \in 1..Len(DigitChars) : DigitChars[i] = c) - 1

RECURSIVE IndexValue(_)
IndexValue(k) ==
    IF k = <<>> THEN 0 ELSE 10 * IndexValue(SubSeq(k, 1, Len(k) - 1)) + DigitValue(k[Len(k)])

\* CreateDataProperty: an existing key keeps its place; a new array index goes
\* among the array indices in ascending order; any other new key goes last.
DefineProperty(obj, k, v) ==
    IF Has(obj, k)
    THEN [i \in 1..Len(obj) |-> IF obj[i][1] = k THEN <<k, v>> ELSE obj[i]]
    ELSE IF IsArrayIndex(k)
         THEN LET n == Cardinality({ i \in 1..Len(obj) :
                           IsArrayIndex(obj[i][1]) /\ IndexValue(obj[i][1]) < IndexValue(k) })
              IN  SubSeq(obj, 1, n) \o << <<k, v>> >> \o SubSeq(obj, n + 1, Len(obj))
         ELSE Append(obj, <<k, v>>)

\* Object.fromEntries, and an object literal with these members in this order
RECURSIVE ObjectFromEntries(_)
ObjectFromEntries(entries) ==
    IF entries = <<>> THEN <<>>
    ELSE LET e == entries[Len(entries)]
         IN  DefineProperty(ObjectFromEntries(SubSeq(entries, 1, Len(entries) - 1)), e[1], e[2])

(***************************************************************************)
(* MatchingUtils.matchCoreConference                                       *)
(* coreRankings is an object literal title -> {rank, acronym}, written as  *)
(* the sequence of its members <<title, [rank, acronym]>>; an entry with   *)
(* no acronym has the empty one.                                           *)
(***************************************************************************)
CoreSubstringMinLength == 20
SignificantWordLength == 3
CoreMinWords == 4
CoreOverlapPercent == 80
AcronymMinLength == 4

\* .split(' ').filter(function(w) { return w.length > 3; })
Words(s) == SelectSeq(split(s), LAMBDA w : Len(w) > SignificantWordLength)

\* the number of words of tableWords (with repetitions) that occur in inputWords
MatchCount(tableWords, inputWords) ==
    Cardinality({ i \in 1..Len(tableWords) : tableWords[i] \in Range(inputWords) })

\* the loop kept running to the last entry that satisfies the test
FirstHit_lastOne(hits) == IF hits = {} THEN 0 ELSE SetMax(hits)

\* the first of the entries hits, in for-in order; 0 if there is none
FirstHit(hits) == IF hits = {} THEN 0 ELSE SetMin(hits)

CoreExactHit(e, normalizedZotero) == normalizeString(e[1]) = normalizedZotero

CoreSubstringHit(e, normalizedZotero) ==
    LET normalizedCore == normalizeString(e[1])
    IN  Contains(normalizedZotero, normalizedCore) /\ Len(normalizedCore) > CoreSubstringMinLength

\* strategy 3 without the test of the input's length
CoreReverseHit_noLengthTest(e, normalizedZotero) ==
    Contains(normalizeString(e[1]), normalizedZotero)

CoreReverseHit(e, normalizedZotero) ==
    LET normalizedCore == normalizeString(e[1])
    IN  Contains(normalizedCore, normalizedZotero) /\ Len(normalizedZotero) > CoreSubstringMinLength

CoreOverlapHit(e, normalizedZotero) ==
    LET coreWords == Words(normalizeString(e[1]))
        matchCount == MatchCount(coreWords, Words(normalizedZotero))
    IN  /\ Len(coreWords) >= CoreMinWords
        /\ matchCount * 100 >= CoreOverlapPercent * Len(coreWords)

\* whether entry e satisfies strategy k (1 exact, 2 substring, 3 reverse substring,
\* 4 word overlap) for the normalized input
CoreHit(k, e, normalizedZotero) ==
    CASE k = 1 -> CoreExactHit(e, normalizedZotero)
      [] k = 2 -> CoreSubstringHit(e, normalizedZotero)
      [] k = 3 -> CoreReverseHit(e, normalizedZotero)
      [] k = 4 -> CoreOverlapHit(e, normalizedZotero)

\* the loop of strategy k: the first entry of the table that satisfies it, 0 if none
CoreLoop(k, table, normalizedZotero) ==
    FirstHit({ i \in 1..Len(table) : CoreHit(k, table[i], normalizedZotero) })

\* strategy 5 with the first of several entries that share the acronym accepted
CoreAcronymMatch_firstOfSeveral(table, zoteroAcronym) ==
    LET acronymMatches == SelectSeq(table, LAMBDA e : e[2].acronym = zoteroAcronym)
    IN  IF zoteroAcronym # <<>> /\ Len(zoteroAcronym) >= AcronymMinLength
           /\ Len(acronymMatches) >= 1
        THEN acronymMatches[1][2].rank ELSE null

\* Strategy 5: the rank of the only entry with this acronym, else null
CoreAcronymMatch(table, zoteroAcronym) ==
    LET acronymMatches == SelectSeq(table, LAMBDA e : e[2].acronym = zoteroAcronym)
    IN  IF zoteroAcronym # <<>> /\ Len(zoteroAcronym) >= AcronymMinLength
           /\ Len(acronymMatches) = 1
        THEN acronymMatches[1][2].rank ELSE null

\* the strategy (1..5) whose return statement yields the result, 0 when null is returned
CoreStrategyUsed(zoteroTitle, coreRankings) ==
    LET table == ObjectFromEntries(coreRankings)
        normalizedZotero == normalizeString(cleanConferenceTitle(zoteroTitle))
    IN  IF CoreLoop(1, table, normalizedZotero) # 0 THEN 1
        ELSE IF CoreLoop(2, table, normalizedZotero) # 0 THEN 2
        ELSE IF CoreLoop(3, table, normalizedZotero) # 0 THEN 3
        ELSE IF CoreLoop(4, table, normalizedZotero) # 0 THEN 4
        ELSE IF CoreAcronymMatch(table, extractAcronym(zoteroTitle)) # null THEN 5
        ELSE 0

\* one loop over the table that returns the first entry satisfying any of the
\* strategies 1 to 4, then the acronym strategy
matchCoreConference_entryFirst(zoteroTitle, coreRankings) ==
    LET table == ObjectFromEntries(coreRankings)
        normalizedZotero == normalizeString(cleanConferenceTitle(zoteroTitle))
        first == FirstHit({ i \in 1..Len(table) :
                              \E k \in 1..4 : CoreHit(k, table[i], normalizedZotero) })
    IN  IF first # 0 THEN table[first][2].rank
        ELSE CoreAcronymMatch(table, extractAcronym(zoteroTitle))

matchCoreConference(zoteroTitle, coreRankings) ==
    LET table == ObjectFromEntries(coreRankings)
        normalizedZotero == normalizeString(cleanConferenceTitle(zoteroTitle))
        zoteroAcronym == extractAcronym(zoteroTitle)
        s1 == CoreLoop(1, table, normalizedZotero)
        s2 == CoreLoop(2, table, normalizedZotero)
        s3 == CoreLoop(3, table, normalizedZotero)
        s4 == CoreLoop(4, table, normalizedZotero)
    IN  IF s1 # 0 THEN table[s1][2].rank
        ELSE IF s2 # 0 THEN table[s2][2].rank
        ELSE IF s3 # 0 THEN table[s3][2].rank
        ELSE IF s4 # 0 THEN table[s4][2].rank
        ELSE CoreAcronymMatch(table, zoteroAcronym)

\* The records matchCoreConference hands to Zotero.debug, one for each strategy it
\* attempts (the messages "CORE Strategy k: Trying ..."): none unless enableDebug,
\* since debugLog is then the empty function.
matchCoreConferenceLog(zoteroTitle, coreRankings, enableDebug) ==
    LET used == CoreStrategyUsed(zoteroTitle, coreRankings)
        zoteroAcronym == extractAcronym(zoteroTitle)
        last == IF used \in 1..4 THEN used
                ELSE IF zoteroAcronym # <<>> /\ Len(zoteroAcronym) >= AcronymMinLength THEN 5
                ELSE 4
    IN  IF enableDebug THEN [k \in 1..last |-> [sink |-> "Zotero.debug", strategy |-> k]]
        ELSE <<>>

\* The records of COREDatabase.match: "[CORE] Trying CORE database..." goes to the
\* debugLog it is given (which writes only when tracing is requested), then
\* matchCoreConference is called with enableDebug = true.
COREDatabase_matchLog(title, coreRankings, tracing) ==
    (IF tracing THEN << [sink |-> "debugLog", strategy |-> 0] >> ELSE <<>>)
        \o matchCoreConferenceLog(title, coreRankings, TRUE)

\* COREDatabase.match: delegates to MatchingUtils.matchCoreConference
COREDatabase_match(title, coreRankings) == matchCoreConference(title, coreRankings)

(***************************************************************************)
(* SJRDatabase: sjrRankings is an object literal title -> {quartile, sjr}  *)
(***************************************************************************)
SjrFuzzyMinLength == 10
SjrMinWords == 5
SjrTableOverlapPercent == 85
SjrSearchOverlapPercent == 80

SjrResult(e) == e[2].quartile \o " " \o e[2].sjr

\* sjrTitle.split(',')[0]
BeforeComma(s) ==
    LET at == { i \in 1..Len(s) : s[i] = "," }
    IN  IF at = {} THEN s ELSE SubSeq(s, 1, SetMin(at) - 1)

SjrExactHit(e, title) == toLowerCase(e[1]) = toLowerCase(title)

SjrFuzzyHit(e, title) ==
    LET cleanedSearch == normalizeString(cleanConferenceTitle(title))
        cleanedSjr == normalizeString(trim(BeforeComma(e[1])))
    IN  cleanedSjr = cleanedSearch /\ Len(cleanedSjr) > SjrFuzzyMinLength

SjrOverlapHit(e, title) ==
    LET searchWords == Words(normalizeString(cleanConferenceTitle(title)))
        sjrWords == Words(normalizeString(e[1]))
        matchCount == MatchCount(sjrWords, searchWords)
    IN  /\ Len(sjrWords) >= SjrMinWords
        /\ matchCount * 100 >= SjrTableOverlapPercent * Len(sjrWords)
        \* a division by searchWords.length = 0 gives NaN, and NaN >= 0.80 is false
        /\ Len(searchWords) > 0
        /\ matchCount * 100 >= SjrSearchOverlapPercent * Len(searchWords)

matchExact(title, sjrRankings) ==
    LET table == ObjectFromEntries(sjrRankings)
        i == FirstHit({ j \in 1..Len(table) : SjrExactHit(table[j], title) })
    IN  IF i # 0 THEN SjrResult(table[i]) ELSE null

matchFuzzy(title, sjrRankings) ==
    LET table == ObjectFromEntries(sjrRankings)
        i == FirstHit({ j \in 1..Len(table) : SjrFuzzyHit(table[j], title) })
    IN  IF i # 0 THEN SjrResult(table[i]) ELSE null

matchWordOverlap(title, sjrRankings) ==
    LET table == ObjectFromEntries(sjrRankings)
        i == FirstHit({ j \in 1..Len(table) : SjrOverlapHit(table[j], title) })
    IN  IF i # 0 THEN SjrResult(table[i]) ELSE null

\* SJRDatabase.match: matchExact(..) || matchFuzzy(..) || matchWordOverlap(..)
SJRDatabase_match(title, sjrRankings) ==
    IF Truthy(matchExact(title, sjrRankings)) THEN matchExact(title, sjrRankings)
    ELSE IF Truthy(matchFuzzy(title, sjrRankings)) THEN matchFuzzy(title, sjrRankings)
    ELSE matchWordOverlap(title, sjrRankings)

\* MatchingUtils.matchSjrJournal: its thresholds
SjrJournalMinLength == 10
SjrJournalMinWords == 5
SjrJournalOverlapPercent == 85

\* strategy 1 of matchSjrJournal
SjrJournalExactHit(e, publicationTitle) ==
    normalizeString(e[1]) = normalizeString(toLowerCase(publicationTitle))

\* strategy 2 of matchSjrJournal
SjrJournalCleanedHit(e, publicationTitle) ==
    LET cleaned == normalizeString(cleanConferenceTitle(publicationTitle))
        cleanedSJR == normalizeString(trim(BeforeComma(e[1])))
    IN  cleanedSJR = cleaned /\ Len(cleaned) > SjrJournalMinLength

\* strategy 3 of matchSjrJournal; an overlap over no words is 0
SjrJournalOverlapHit(e, publicationTitle) ==
    LET words == Words(normalizeString(cleanConferenceTitle(publicationTitle)))
        sjrWords == Words(normalizeString(trim(BeforeComma(e[1]))))
        matchCount == MatchCount(sjrWords, words)
    IN  /\ Len(sjrWords) >= SjrJournalMinWords
        /\ matchCount * 100 >= SjrJournalOverlapPercent * Len(sjrWords)
        /\ Len(words) > 0
        /\ matchCount * 100 >= SjrJournalOverlapPercent * Len(words)

\* MatchingUtils.matchSjrJournal: the entry's data, or null
matchSjrJournal(publicationTitle, sjrRankings) ==
    LET table == ObjectFromEntries(sjrRankings)
        s1 == FirstHit({ j \in 1..Len(table) : SjrJournalExactHit(table[j], publicationTitle) })
        s2 == FirstHit({ j \in 1..Len(table) : SjrJournalCleanedHit(table[j], publicationTitle) })
        s3 == FirstHit({ j \in 1..Len(table) : SjrJournalOverlapHit(table[j], publicationTitle) })
    IN  IF s1 # 0 THEN table[s1][2]
        ELSE IF s2 # 0 THEN table[s2][2]
        ELSE IF s3 # 0 THEN table[s3][2]
        ELSE null

(***************************************************************************)
(* Map: the entries <<key, value>> in insertion order                      *)
(***************************************************************************)
\* a set that moves an existing key to the last place
MapSet_moveToEnd(m, k, v) == Append(SelectSeq(m, LAMBDA e : e[1] # k), <<k, v>>)

\* Map.prototype.set: an existing key keeps its place, a new key goes last
MapSet(m, k, v) ==
    IF Has(m, k) THEN [i \in 1..Len(m) |-> IF m[i][1] = k THEN <<k, v>> ELSE m[i]]
    ELSE Append(m, <<k, v>>)

\* Map.prototype.delete
MapDelete(m, k) == SelectSeq(m, LAMBDA e : e[1] # k)

\* new Map(entries)
RECURSIVE MapFromEntries(_)
MapFromEntries(entries) ==
    IF entries = <<>> THEN <<>>
    ELSE LET e == entries[Len(entries)]
         IN  MapSet(MapFromEntries(SubSeq(entries, 1, Len(entries) - 1)), e[1], e[2])

(***************************************************************************)
(* The persisted preference 'manualOverrides' and JSON                     *)
(* A preference value is [kind, members, items]:                           *)
(*   "undefined"  the preference is not set (getPref returns undefined)    *)
(*   "empty"      the empty string                                         *)
(*   "blank"      a string of whitespace only                              *)
(*   "object"     JSON text of an object with these members, in text order *)
(*   "array"      JSON text of an array of these strings                   *)
(*   "string"     JSON text of the string with these characters            *)
(*   "number"     JSON text of a number                                    *)
(*   "null"       the JSON text null                                       *)
(*   "invalid"    text that is not JSON                                    *)
(***************************************************************************)
Text(kind, members, items) == [kind |-> kind, members |-> members, items |-> items]

\* the text '{}'
EmptyObjectText == Text("object", <<>>, <<>>)

\* JSON.stringify of an object whose values are strings: its members in
\* enumeration order
JSONstringify(obj) == Text("object", obj, <<>>)

\* the decimal digits of n >= 0, as a property key
RECURSIVE IndexKey(_)
IndexKey(n) ==
    IF n < 10 THEN <<DigitChars[n + 1]>> ELSE IndexKey(n \div 10) \o <<DigitChars[(n % 10) + 1]>>

\* JSON.parse throws a SyntaxError on text that is not JSON
JSONparseThrows(text) == text.kind \in {"invalid", "empty", "blank", "undefined"}

\* Object.entries(JSON.parse(text)) throws a TypeError on null
ObjectEntriesThrows(text) == text.kind = "null"

\* Object.entries(JSON.parse(text)): the own enumerable properties of the parsed
\* value: an object's members, an array's elements and a string's characters
\* under their indices, nothing for a number
ParsedEntries(text) ==
    CASE text.kind = "object" -> ObjectFromEntries(text.members)
      [] text.kind \in {"array", "string"} ->
            [i \in 1..Len(text.items) |-> <<IndexKey(i - 1), text.items[i]>>]
      [] OTHER -> <<>>

(***************************************************************************)
(* ManualOverrides                                                         *)
(***************************************************************************)
\* the key made with the normalizer of the matchers
normalizedTitle_fullNormalizer(publicationTitle) == normalizeString(publicationTitle)

\* publicationTitle.toLowerCase().trim()
normalizedTitle(publicationTitle) == trim(toLowerCase(publicationTitle))

\* load with the parsed map never installed in this.overrides
loadOutcome_notInstalled(pref) ==
    [overrides |-> <<>>,
     prefStore |-> IF pref.kind \in {"null", "invalid"} THEN EmptyObjectText ELSE pref,
     caught |-> pref.kind \in {"null", "invalid"}]

\* ManualOverrides.load as a function of the persisted value: the new in-memory
\* map, the new persisted value, and whether the catch branch ran
loadOutcome(pref) ==
    LET data == IF pref.kind \in {"undefined", "empty"} THEN EmptyObjectText ELSE pref
        trimmedData == IF data.kind = "blank" THEN Text("empty", <<>>, <<>>) ELSE data
    IN  IF trimmedData.kind = "empty" \/ trimmedData = EmptyObjectText
        THEN [overrides |-> <<>>, prefStore |-> pref, caught |-> FALSE]
        ELSE IF JSONparseThrows(trimmedData) \/ ObjectEntriesThrows(trimmedData)
        THEN [overrides |-> <<>>, prefStore |-> EmptyObjectText, caught |-> TRUE]
        ELSE [overrides |-> MapFromEntries(ParsedEntries(trimmedData)),
              prefStore |-> pref, caught |-> FALSE]

\* save of a snapshot taken before the caller's change to the map
save_stale(m) == JSONstringify(ObjectFromEntries(overrides))

\* ManualOverrides.save: the value setPref stores for the in-memory map m
save(m) == JSONstringify(ObjectFromEntries(m))

\* get without the normalization of the title
get_raw(publicationTitle) ==
    IF Has(overrides, publicationTitle) THEN Lookup(overrides, publicationTitle) ELSE undefined

\* ManualOverrides.get: the rank, or undefined
get(publicationTitle) ==
    IF Has(overrides, normalizedTitle(publicationTitle))
    THEN Lookup(overrides, normalizedTitle(publicationTitle)) ELSE undefined

\* ManualOverrides.has
has(publicationTitle) == Has(overrides, normalizedTitle(publicationTitle))

\* ManualOverrides.count
count == Len(overrides)

(***************************************************************************)
(* DatabaseRegistry                                                        *)
(* A config is [id, name, prefKey, hasPriority, priority, matcher]; an     *)
(* absent id, name, prefKey or matcher is undefined, an absent priority    *)
(* has hasPriority = FALSE. A matcher is named by the function it calls.   *)
(***************************************************************************)
DefaultPriority == 999

Config(id, name, prefKey, hasPriority, priority, matcher) ==
    [id |-> id, name |-> name, prefKey |-> prefKey, hasPriority |-> hasPriority,
     priority |-> priority, matcher |-> matcher]

\* the guard without its test of the matcher
registerThrows_noMatcherTest(config) == ~Truthy(config.id) \/ ~Truthy(config.name)

\* the guard of register: !config.id || !config.name || !config.matcher
registerThrows(config) ==
    ~Truthy(config.id) \/ ~Truthy(config.name) \/ ~Truthy(config.matcher)

\* config.priority || 999
storedPriority(config) ==
    IF config.hasPriority /\ config.priority # 0 THEN config.priority ELSE DefaultPriority

\* the record register stores under config.id
storedConfig(config) ==
    [id |-> config.id,
     name |-> config.name,
     prefKey |-> IF Truthy(config.prefKey) THEN config.prefKey ELSE null,
     priority |-> storedPriority(config),
     matcher |-> config.matcher]

\* a preference that is not set reads as undefined, which is falsy
getPref(prefKey) == IF prefKey \in DOMAIN prefFlags THEN prefFlags[prefKey] ELSE FALSE

\* the test with every database that has a preference key taken as enabled
enabledTest_ignoresPref(db) == TRUE

\* the test of getEnabledDatabases and isEnabled
enabledTest(db) == db.prefKey = null \/ getPref(db.prefKey)

\* Array.prototype.sort with (a, b) => a.priority - b.priority: a stable sort,
\* here by insertion after the last element that is not greater
RECURSIVE sortByPriority(_)
sortByPriority(dbs) ==
    IF dbs = <<>> THEN <<>>
    ELSE LET sorted == sortByPriority(SubSeq(dbs, 1, Len(dbs) - 1))
             x == dbs[Len(dbs)]
             n == Cardinality({ i \in 1..Len(sorted) : sorted[i].priority <= x.priority })
         IN  SubSeq(sorted, 1, n) \o <<x>> \o SubSeq(sorted, n + 1, Len(sorted))

\* this.databases.values()
Values(m) == [i \in 1..Len(m) |-> m[i][2]]

getEnabledDatabases == sortByPriority(SelectSeq(Values(databases), enabledTest))

isEnabled(dbId) == Has(databases, dbId) /\ enabledTest(Lookup(databases, dbId))

\* getDatabase returns null for an unknown id: the record whose id is null
NoDatabase == [id |-> null, name |-> null, prefKey |-> null, priority |-> 0, matcher |-> null]
getDatabase(dbId) == IF Has(databases, dbId) THEN Lookup(databases, dbId) ELSE NoDatabase

getAllIds == Keys(databases)

(***************************************************************************)
(* Resolution of a title: RankingEngine.getRanking                         *)
(***************************************************************************)
\* The reference tables of data.js, in a sample small enough to enumerate.
sjrRankings ==
    << << <<"A","1">>, [quartile |-> "Q2", sjr |-> "0.5"] >> >>
coreRankings ==
    << << <<"a"," ","1">>, [rank |-> "C", acronym |-> <<>>] >>,
       << <<"a","1">>, [rank |-> "A*", acronym |-> <<>>] >> >>

\* the matcher functions the two database plugins register
callMatcher(matcher, title) ==
    CASE matcher = "SJRDatabase.match" -> SJRDatabase_match(title, sjrRankings)
      [] matcher = "COREDatabase.match" -> COREDatabase_match(title, coreRankings)
      [] OTHER -> null

\* a walk that lets a later database replace the result of an earlier one
RECURSIVE walk_lastHit(_, _)
walk_lastHit(dbs, title) ==
    IF dbs = <<>> THEN null
    ELSE IF walk_lastHit(Tail(dbs), title) # null THEN walk_lastHit(Tail(dbs), title)
    ELSE callMatcher(dbs[1].matcher, title)

\* the walk over the enabled databases: the first result that is not absent
RECURSIVE walk(_, _)
walk(dbs, title) ==
    IF dbs = <<>> THEN null
    ELSE IF Truthy(callMatcher(dbs[1].matcher, title)) THEN callMatcher(dbs[1].matcher, title)
    ELSE walk(Tail(dbs), title)

\* the ids of the databases whose matcher the walk calls, in the order of the calls
RECURSIVE walkCalls(_, _)
walkCalls(dbs, title) ==
    IF dbs = <<>> THEN <<>>
    ELSE IF Truthy(callMatcher(dbs[1].matcher, title)) THEN << dbs[1].id >>
    ELSE << dbs[1].id >> \o walkCalls(Tail(dbs), title)

automaticRanking(title) == walk(getEnabledDatabases, title)

\* an override wins; otherwise the automatic walk
getRanking(title) == IF has(title) THEN get(title) ELSE automaticRanking(title)

(***************************************************************************)
(* Inputs and bounds                                                       *)
(***************************************************************************)
\* the most entries the override map is let grow to
MaxOverrides == 2

\* publication titles passed to the override store and to resolution
Titles == { <<"A","1">>, <<" ","a","1"," ">>, <<"a","1",".">>, <<"1">>, <<"B">> }

\* ranking strings a user enters; the dialog trims its input, so "" can be stored
Rankings == { "Q1", "C", "" }

Callers == { "c1", "c2" }

PrefKeys == { "enableCORE" }

\* values the preference 'manualOverrides' may hold when the plugin starts
InitialPrefs ==
    { Text("undefined", <<>>, <<>>),
      Text("empty", <<>>, <<>>),
      Text("blank", <<>>, <<>>),
      EmptyObjectText,
      Text("object", << << <<"a","1">>, "Q1" >> >>, <<>>),
      Text("object", << << <<"b">>, "C" >>, << <<"1">>, "Q1" >> >>, <<>>),
      Text("array", <<>>, << "Q1" >>),
      Text("string", <<>>, << "Q", "1" >>),
      Text("number", <<>>, <<>>),
      Text("null", <<>>, <<>>),
      Text("invalid", <<>>, <<>>) }

\* the registrations of the two database plugins
sjrConfig == Config("sjr", "SCImago Journal Rankings", null, TRUE, 0, "SJRDatabase.match")
coreConfig == Config("core", "CORE Conference Rankings", "enableCORE", TRUE, 100, "COREDatabase.match")
ReferenceConfigs == { sjrConfig, coreConfig }

\* configs passed to register when the registry is explored on its own
ValidConfigs ==
    { Config(id, name, prefKey, hp, IF hp THEN pr ELSE 0, matcher) :
        id \in { "sjr", "core" },
        name \in { "SCImago Journal Rankings", "CORE Conference Rankings" },
        prefKey \in { null, "enableCORE" },
        hp \in BOOLEAN,
        pr \in { 0, 100 },
        matcher \in { "SJRDatabase.match", "COREDatabase.match" } }
InvalidConfigs ==
    { Config(undefined, "SCImago Journal Rankings", null, TRUE, 0, "SJRDatabase.match"),
      Config("", "SCImago Journal Rankings", null, TRUE, 0, "SJRDatabase.match"),
      Config("sjr", undefined, null, TRUE, 0, "SJRDatabase.match"),
      Config("core", "CORE Conference Rankings", "enableCORE", TRUE, 100, undefined),
      Config(undefined, undefined, undefined, FALSE, 0, undefined) }
ConfigInputs == ValidConfigs \cup InvalidConfigs

(***************************************************************************)
(* Handlers                                                                *)
(***************************************************************************)
\* what a call leaves in lastCall: the operation, whether the store has been
\* loaded or written since the process started, and the call's own fields
Call(op, started, fields) == [op |-> op, started |-> started] @@ fields

\* ManualOverrides.set up to its await: the map is changed and saved
setBody(publicationTitle, ranking) ==
    /\ Has(overrides, normalizedTitle(publicationTitle)) \/ Len(overrides) < MaxOverrides
    /\ overrides' = MapSet(overrides, normalizedTitle(publicationTitle), ranking)
    /\ prefStore' = save(overrides')

\* ManualOverrides.remove up to its await
removeBody(publicationTitle) ==
    /\ overrides' = MapDelete(overrides, normalizedTitle(publicationTitle))
    /\ prefStore' = save(overrides')

\* clearAll that empties the map and does not save it
clearAllBody_memoryOnly ==
    /\ overrides' = <<>>
    /\ prefStore' = prefStore

\* ManualOverrides.clearAll up to its await
clearAllBody ==
    /\ overrides' = <<>>
    /\ prefStore' = save(overrides')

set(publicationTitle, ranking) ==
    /\ setBody(publicationTitle, ranking)
    /\ lastCall' = Call("set", TRUE, [title |-> publicationTitle, ranking |-> ranking])
    /\ UNCHANGED <<databases, prefFlags, pc, local, query, answer>>

remove(publicationTitle) ==
    /\ removeBody(publicationTitle)
    /\ lastCall' = Call("remove", TRUE, [title |-> publicationTitle])
    /\ UNCHANGED <<databases, prefFlags, pc, local, query, answer>>

clearAll ==
    /\ clearAllBody
    /\ lastCall' = Call("clearAll", TRUE, [before |-> Pairs(overrides)])
    /\ UNCHANGED <<databases, prefFlags, pc, local, query, answer>>

load ==
    /\ overrides' = loadOutcome(prefStore).overrides
    /\ prefStore' = loadOutcome(prefStore).prefStore
    /\ lastCall' = Call("load", TRUE, [stored |-> prefStore, caught |-> loadOutcome(prefStore).caught])
    /\ UNCHANGED <<databases, prefFlags, pc, local, query, answer>>

\* The application restarts: the modules are evaluated again (an empty override
\* map, an empty registry) and the plugin's initialization calls load.
restart ==
    /\ overrides' = loadOutcome(prefStore).overrides
    /\ prefStore' = loadOutcome(prefStore).prefStore
    /\ databases' = <<>>
    /\ lastCall' = Call("restart", TRUE, [before |-> Pairs(overrides), wasStarted |-> lastCall.started])
    /\ UNCHANGED <<prefFlags, pc, local, query, answer>>

register(config) ==
    /\ databases' = IF registerThrows(config) THEN databases
                    ELSE MapSet(databases, config.id, storedConfig(config))
    /\ lastCall' = Call("register", lastCall.started,
                        [config |-> config, threw |-> registerThrows(config),
                         wasPresent |-> Has(databases, config.id), sizeBefore |-> Len(databases),
                         before |-> IF registerThrows(config) THEN databases ELSE <<>>])
    /\ UNCHANGED <<overrides, prefStore, prefFlags, pc, local, query, answer>>

\* DatabaseRegistry.clear
clear ==
    /\ databases' = <<>>
    /\ lastCall' = Call("clear", lastCall.started, <<>>)
    /\ UNCHANGED <<overrides, prefStore, prefFlags, pc, local, query, answer>>

\* the user switches a database preference in the settings pane
setPrefFlag(prefKey, value) ==
    /\ prefFlags[prefKey] # value
    /\ prefFlags' = [prefFlags EXCEPT ![prefKey] = value]
    /\ lastCall' = Call("setPref", lastCall.started, [prefKey |-> prefKey, before |-> getEnabledDatabases])
    /\ UNCHANGED <<overrides, prefStore, databases, pc, local, query, answer>>

(***************************************************************************)
(* Spec: one caller at a time uses the override store and resolves titles  *)
(* through the two registered databases.                                   *)
(***************************************************************************)
NoQuery == [title |-> <<>>, table |-> <<>>]

Init ==
    /\ overrides = <<>>
    /\ prefStore \in InitialPrefs
    /\ databases = <<>>
    /\ prefFlags \in [PrefKeys -> BOOLEAN]
    /\ lastCall = Call("none", FALSE, <<>>)
    /\ pc = [c \in Callers |-> "idle"]
    /\ local = [c \in Callers |-> <<>>]
    /\ query = NoQuery
    /\ answer = null

Next ==
    \/ load
    \/ \E t \in Titles, r \in Rankings : set(t, r)
    \/ \E t \in Titles : remove(t)
    \/ clearAll
    \/ restart
    \/ \E c \in ReferenceConfigs : register(c)
    \/ \E k \in PrefKeys, v \in BOOLEAN : setPrefFlag(k, v)

Spec == Init /\ [][Next]_vars

(***************************************************************************)
(* SpecRegistry: the registry on its own, with arbitrary registrations     *)
(***************************************************************************)
NextRegistry ==
    \/ \E c \in ConfigInputs : register(c)
    \/ clear
    \/ \E k \in PrefKeys, v \in BOOLEAN : setPrefFlag(k, v)

InitRegistry == Init /\ prefStore = EmptyObjectText

SpecRegistry == InitRegistry /\ [][NextRegistry]_vars

(***************************************************************************)
(* SpecConc: several callers use the override store.  A call runs without  *)
(* interruption up to its await (save itself awaits nothing, so the change *)
(* of the map and the write of the preference fall into the same turn);    *)
(* the caller's continuation runs in a later turn, after the turns of any  *)
(* other caller.                                                           *)
(***************************************************************************)
\* the selections of clearManualRankingForSelected: publication titles, trimmed,
\* in the order of the selected items
Selections == { << <<"A","1">>, <<"B">> >>, << <<"B">>, <<"1">>, <<"a","1">> >> }

\* the titles and ranks the callers of SpecConc use
ConcTitles == { <<"A","1">>, <<" ","a","1"," ">>, <<"B">> }

ConcRankings == { "Q1", "" }

Idle(c) == pc[c] = "idle"

\* a caller runs ManualOverrides.set up to the await of save
callSet(c, publicationTitle, ranking) ==
    /\ Idle(c)
    /\ setBody(publicationTitle, ranking)
    /\ pc' = [pc EXCEPT ![c] = "set:await"]
    /\ local' = [local EXCEPT ![c] = [op |-> "set", title |-> publicationTitle, ranking |-> ranking]]
    /\ lastCall' = Call("set", TRUE, [title |-> publicationTitle, ranking |-> ranking])
    /\ UNCHANGED <<databases, prefFlags, query, answer>>

\* a caller runs ManualOverrides.remove up to the await of save
callRemove(c, publicationTitle) ==
    /\ Idle(c)
    /\ removeBody(publicationTitle)
    /\ pc' = [pc EXCEPT ![c] = "remove:await"]
    /\ local' = [local EXCEPT ![c] = [op |-> "remove", title |-> publicationTitle]]
    /\ lastCall' = Call("remove", TRUE, [title |-> publicationTitle])
    /\ UNCHANGED <<databases, prefFlags, query, answer>>

\* a continuation that applies the caller's change to the map again and saves it
return_appliesAgain(c) ==
    /\ pc[c] \in { "set:await", "remove:await" }
    /\ overrides' = IF local[c].op = "set"
                    THEN MapSet(overrides, normalizedTitle(local[c].title), local[c].ranking)
                    ELSE MapDelete(overrides, normalizedTitle(local[c].title))
    /\ prefStore' = save(overrides')
    /\ pc' = [pc EXCEPT ![c] = "idle"]
    /\ local' = [local EXCEPT ![c] = <<>>]
    /\ UNCHANGED <<databases, prefFlags, lastCall, query, answer>>

\* the continuation of set or remove: the call returns
return(c) ==
    /\ pc[c] \in { "set:await", "remove:await" }
    /\ pc' = [pc EXCEPT ![c] = "idle"]
    /\ local' = [local EXCEPT ![c] = <<>>]
    /\ UNCHANGED <<overrides, prefStore, databases, prefFlags, lastCall, query, answer>>

\* the titles of the loop from the first one whose override get(title) is truthy
RECURSIVE FromFirstOverridden(_)
FromFirstOverridden(titles) ==
    IF titles = <<>> THEN <<>>
    ELSE IF Truthy(get(Head(titles))) THEN titles
    ELSE FromFirstOverridden(Tail(titles))

\* The loop of clearManualRankingForSelected from the title it stands at up to
\* its next await: titles without a truthy override are passed over, the first
\* one with an override is removed and counted, and the loop waits for the
\* removal; with no title left the handler reports the count and ends.
clearLoop(c, titles, cleared) ==
    IF FromFirstOverridden(titles) = <<>>
    THEN /\ pc' = [pc EXCEPT ![c] = "idle"]
         /\ local' = [local EXCEPT ![c] = [op |-> "cleared", cleared |-> cleared]]
         /\ UNCHANGED <<overrides, prefStore, lastCall>>
    ELSE /\ removeBody(Head(FromFirstOverridden(titles)))
         /\ pc' = [pc EXCEPT ![c] = "clear:await"]
         /\ local' = [local EXCEPT ![c] = [op |-> "clear",
                                            title |-> Head(FromFirstOverridden(titles)),
                                            titles |-> Tail(FromFirstOverridden(titles)),
                                            cleared |-> cleared + 1]]
         /\ lastCall' = Call("remove", TRUE, [title |-> Head(FromFirstOverridden(titles))])

\* a caller starts clearManualRankingForSelected on a selection
clearManualRankingForSelected(c, selection) ==
    /\ Idle(c)
    /\ clearLoop(c, selection, 0)
    /\ UNCHANGED <<databases, prefFlags, query, answer>>

\* the continuation of the loop after the awaited removal
continueClear(c) ==
    /\ pc[c] = "clear:await"
    /\ clearLoop(c, local[c].titles, local[c].cleared)
    /\ UNCHANGED <<databases, prefFlags, query, answer>>

InitConc == Init /\ prefStore = EmptyObjectText

NextConc ==
    \/ \E c \in Callers, t \in ConcTitles, r \in ConcRankings : callSet(c, t, r)
    \/ \E c \in Callers, t \in ConcTitles : callRemove(c, t)
    \/ \E c \in Callers : return(c)
    \/ \E c \in Callers, sel \in Selections : clearManualRankingForSelected(c, sel)
    \/ \E c \in Callers : continueClear(c)

SpecConc == InitConc /\ [][NextConc]_vars

(***************************************************************************)
(* SpecMatch: conference titles are matched against tables of CORE entries *)
(***************************************************************************)
\* "Conference on Data Mining"
keyDataMining ==
    << "C", "o", "n", "f", "e", "r", "e", "n", "c", "e", " ", "o", "n", " ", "D", "a", "t",
       "a", " ", "M", "i", "n", "i", "n", "g" >>

\* "Workshop Systems Mining Data Conference"
keyWorkshopFirst ==
    << "W", "o", "r", "k", "s", "h", "o", "p", " ", "S", "y", "s", "t", "e", "m", "s", " ",
       "M", "i", "n", "i", "n", "g", " ", "D", "a", "t", "a", " ", "C", "o", "n", "f", "e",
       "r", "e", "n", "c", "e" >>

\* "conference data mining systems workshop"
keyWorkshopLast ==
    << "c", "o", "n", "f", "e", "r", "e", "n", "c", "e", " ", "d", "a", "t", "a", " ", "m",
       "i", "n", "i", "n", "g", " ", "s", "y", "s", "t", "e", "m", "s", " ", "w", "o", "r",
       "k", "s", "h", "o", "p" >>

\* "Symposium on Theory"
keyTheory ==
    << "S", "y", "m", "p", "o", "s", "i", "u", "m", " ", "o", "n", " ", "T", "h", "e", "o",
       "r", "y" >>

\* "International Conference on Data Mining and Systems"
keyInternational ==
    << "I", "n", "t", "e", "r", "n", "a", "t", "i", "o", "n", "a", "l", " ", "C", "o", "n",
       "f", "e", "r", "e", "n", "c", "e", " ", "o", "n", " ", "D", "a", "t", "a", " ", "M",
       "i", "n", "i", "n", "g", " ", "a", "n", "d", " ", "S", "y", "s", "t", "e", "m", "s" >>

\* "Proceedings of the 12th Annual Conference on Data Mining 2019"
inProceedings ==
    << "P", "r", "o", "c", "e", "e", "d", "i", "n", "g", "s", " ", "o", "f", " ", "t", "h",
       "e", " ", "1", "2", "t", "h", " ", "A", "n", "n", "u", "a", "l", " ", "C", "o", "n",
       "f", "e", "r", "e", "n", "c", "e", " ", "o", "n", " ", "D", "a", "t", "a", " ", "M",
       "i", "n", "i", "n", "g", " ", "2", "0", "1", "9" >>

\* "Conference Data Mining Systems Workshop (WSMD)"
inWithAcronym ==
    << "C", "o", "n", "f", "e", "r", "e", "n", "c", "e", " ", "D", "a", "t", "a", " ", "M",
       "i", "n", "i", "n", "g", " ", "S", "y", "s", "t", "e", "m", "s", " ", "W", "o", "r",
       "k", "s", "h", "o", "p", " ", "(", "W", "S", "M", "D", ")" >>

\* "Conference Data Mining Systems Workshop"
inWorkshopLast ==
    << "C", "o", "n", "f", "e", "r", "e", "n", "c", "e", " ", "D", "a", "t", "a", " ", "M",
       "i", "n", "i", "n", "g", " ", "S", "y", "s", "t", "e", "m", "s", " ", "W", "o", "r",
       "k", "s", "h", "o", "p" >>

\* "Meeting on Theory (CODM)"
inSharedAcronym ==
    << "M", "e", "e", "t", "i", "n", "g", " ", "o", "n", " ", "T", "h", "e", "o", "r", "y",
       " ", "(", "C", "O", "D", "M", ")" >>

\* "Data Mining (DM)"
inShortAcronym ==
    << "D", "a", "t", "a", " ", "M", "i", "n", "i", "n", "g", " ", "(", "D", "M", ")" >>

\* "Mining Data Conference Workshop"
inFourOfFive ==
    << "M", "i", "n", "i", "n", "g", " ", "D", "a", "t", "a", " ", "C", "o", "n", "f", "e",
       "r", "e", "n", "c", "e", " ", "W", "o", "r", "k", "s", "h", "o", "p" >>

\* "Unrelated"
inUnrelated ==
    << "U", "n", "r", "e", "l", "a", "t", "e", "d" >>

\* the CORE entries the tables are made of: << title, [rank, acronym] >>
CoreEntries ==
    { <<keyDataMining, [rank |-> "A", acronym |-> <<"C", "O", "D", "M">>]>>,
      <<keyWorkshopFirst, [rank |-> "B", acronym |-> <<"W", "S", "M", "D">>]>>,
      <<keyWorkshopLast, [rank |-> "A*", acronym |-> <<>>]>>,
      <<keyTheory, [rank |-> "C", acronym |-> <<"C", "O", "D", "M">>]>>,
      <<keyInternational, [rank |-> "B", acronym |-> <<"D", "M">>]>> }

\* the largest number of entries of a table
MaxTable == 2

\* the tables: up to MaxTable entries with different titles, in every order
CoreTables ==
    { t \in UNION { [1..n -> CoreEntries] : n \in 0..MaxTable } :
        \A i, j \in 1..Len(t) : t[i][1] = t[j][1] => i = j }

ConferenceTitles ==
    { inProceedings, inWithAcronym, inWorkshopLast, inSharedAcronym, inShortAcronym,
      inFourOfFive, inUnrelated }

\* matchCoreConference is called on the title, with the table as coreRankings
callMatchCoreConference ==
    /\ lastCall.op = "none"
    /\ answer' = matchCoreConference(query.title, query.table)
    /\ lastCall' = Call("matchCoreConference", FALSE, <<>>)
    /\ UNCHANGED <<overrides, prefStore, databases, prefFlags, pc, local, query>>

\* a conference title and a table are given
InitMatch ==
    /\ overrides = <<>>
    /\ prefStore = EmptyObjectText
    /\ databases = <<>>
    /\ prefFlags = [k \in PrefKeys |-> TRUE]
    /\ lastCall = Call("none", FALSE, <<>>)
    /\ pc = [c \in Callers |-> "idle"]
    /\ local = [c \in Callers |-> <<>>]
    /\ query \in [title : ConferenceTitles, table : CoreTables]
    /\ answer = null

NextMatch == callMatchCoreConference

SpecMatch == InitMatch /\ [][NextMatch]_vars

(***************************************************************************)
(* SpecJournal: journal titles are matched against tables of SJR entries   *)
(***************************************************************************)
\* "Journal Applied Machine Learning Research"
sjrKeyPlain ==
    << "J", "o", "u", "r", "n", "a", "l", " ", "A", "p", "p", "l", "i", "e", "d", " ", "M",
       "a", "c", "h", "i", "n", "e", " ", "L", "e", "a", "r", "n", "i", "n", "g", " ", "R",
       "e", "s", "e", "a", "r", "c", "h" >>

\* "Applied Journal Machine Learning Research"
sjrKeyPlainOther ==
    << "A", "p", "p", "l", "i", "e", "d", " ", "J", "o", "u", "r", "n", "a", "l", " ", "M",
       "a", "c", "h", "i", "n", "e", " ", "L", "e", "a", "r", "n", "i", "n", "g", " ", "R",
       "e", "s", "e", "a", "r", "c", "h" >>

\* "Advances Neural Information Processing Systems, MIT Press"
sjrKeyComma ==
    << "A", "d", "v", "a", "n", "c", "e", "s", " ", "N", "e", "u", "r", "a", "l", " ", "I",
       "n", "f", "o", "r", "m", "a", "t", "i", "o", "n", " ", "P", "r", "o", "c", "e", "s",
       "s", "i", "n", "g", " ", "S", "y", "s", "t", "e", "m", "s", ",", " ", "M", "I", "T",
       " ", "P", "r", "e", "s", "s" >>

\* "Advances Neural Information Processing Systems, ACM"
sjrKeyCommaOther ==
    << "A", "d", "v", "a", "n", "c", "e", "s", " ", "N", "e", "u", "r", "a", "l", " ", "I",
       "n", "f", "o", "r", "m", "a", "t", "i", "o", "n", " ", "P", "r", "o", "c", "e", "s",
       "s", "i", "n", "g", " ", "S", "y", "s", "t", "e", "m", "s", ",", " ", "A", "C", "M" >>

\* "alfa beta gama delt epsi zeta etaa thet"
sjrKeyEight ==
    << "a", "l", "f", "a", " ", "b", "e", "t", "a", " ", "g", "a", "m", "a", " ", "d", "e",
       "l", "t", " ", "e", "p", "s", "i", " ", "z", "e", "t", "a", " ", "e", "t", "a", "a",
       " ", "t", "h", "e", "t" >>

\* "journal applied machine learning research"
jtExact ==
    << "j", "o", "u", "r", "n", "a", "l", " ", "a", "p", "p", "l", "i", "e", "d", " ", "m",
       "a", "c", "h", "i", "n", "e", " ", "l", "e", "a", "r", "n", "i", "n", "g", " ", "r",
       "e", "s", "e", "a", "r", "c", "h" >>

\* "Research Learning Machine Applied Journal"
jtReordered ==
    << "R", "e", "s", "e", "a", "r", "c", "h", " ", "L", "e", "a", "r", "n", "i", "n", "g",
       " ", "M", "a", "c", "h", "i", "n", "e", " ", "A", "p", "p", "l", "i", "e", "d", " ",
       "J", "o", "u", "r", "n", "a", "l" >>

\* "Systems Processing Information Neural Advances"
jtCommaReordered ==
    << "S", "y", "s", "t", "e", "m", "s", " ", "P", "r", "o", "c", "e", "s", "s", "i", "n",
       "g", " ", "I", "n", "f", "o", "r", "m", "a", "t", "i", "o", "n", " ", "N", "e", "u",
       "r", "a", "l", " ", "A", "d", "v", "a", "n", "c", "e", "s" >>

\* "Proceedings of the 2019 Advances Neural Information Processing Systems"
jtProceedings ==
    << "P", "r", "o", "c", "e", "e", "d", "i", "n", "g", "s", " ", "o", "f", " ", "t", "h",
       "e", " ", "2", "0", "1", "9", " ", "A", "d", "v", "a", "n", "c", "e", "s", " ", "N",
       "e", "u", "r", "a", "l", " ", "I", "n", "f", "o", "r", "m", "a", "t", "i", "o", "n",
       " ", "P", "r", "o", "c", "e", "s", "s", "i", "n", "g", " ", "S", "y", "s", "t", "e",
       "m", "s" >>

\* "alfa beta gama delt epsi zeta etaa thet iota kapa"
jtEightOfTen ==
    << "a", "l", "f", "a", " ", "b", "e", "t", "a", " ", "g", "a", "m", "a", " ", "d", "e",
       "l", "t", " ", "e", "p", "s", "i", " ", "z", "e", "t", "a", " ", "e", "t", "a", "a",
       " ", "t", "h", "e", "t", " ", "i", "o", "t", "a", " ", "k", "a", "p", "a" >>

\* "Nature"
jtUnrelated ==
    << "N", "a", "t", "u", "r", "e" >>

\* the SJR entries the tables are made of: << title, [quartile, sjr] >>
SjrEntries ==
    { <<sjrKeyPlain, [quartile |-> "Q1", sjr |-> "1.5"]>>,
      <<sjrKeyPlainOther, [quartile |-> "Q4", sjr |-> "0.1"]>>,
      <<sjrKeyComma, [quartile |-> "Q2", sjr |-> "0.9"]>>,
      <<sjrKeyCommaOther, [quartile |-> "Q1", sjr |-> "2.0"]>>,
      <<sjrKeyEight, [quartile |-> "Q3", sjr |-> "0.2"]>> }

\* the largest number of entries of an SJR table
MaxSjrTable == 2

\* the tables: up to MaxSjrTable entries with different titles, in every order
SjrTables ==
    { t \in UNION { [1..n -> SjrEntries] : n \in 0..MaxSjrTable } :
        \A i, j \in 1..Len(t) : t[i][1] = t[j][1] => i = j }

JournalTitles ==
    { jtExact, jtReordered, jtCommaReordered, jtProceedings, jtEightOfTen, jtUnrelated }

\* SJRDatabase.match is called on the title, with the table as sjrRankings
callSJRDatabaseMatch ==
    /\ lastCall.op = "none"
    /\ answer' = SJRDatabase_match(query.title, query.table)
    /\ lastCall' = Call("SJRDatabase.match", FALSE, <<>>)
    /\ UNCHANGED <<overrides, prefStore, databases, prefFlags, pc, local, query>>

\* SJRDatabase.matchFuzzy is called on the title
callMatchFuzzy ==
    /\ lastCall.op = "none"
    /\ answer' = matchFuzzy(query.title, query.table)
    /\ lastCall' = Call("matchFuzzy", FALSE, <<>>)
    /\ UNCHANGED <<overrides, prefStore, databases, prefFlags, pc, local, query>>

\* SJRDatabase.matchWordOverlap is called on the title
callMatchWordOverlap ==
    /\ lastCall.op = "none"
    /\ answer' = matchWordOverlap(query.title, query.table)
    /\ lastCall' = Call("matchWordOverlap", FALSE, <<>>)
    /\ UNCHANGED <<overrides, prefStore, databases, prefFlags, pc, local, query>>

\* MatchingUtils.matchSjrJournal is called on the title
callMatchSjrJournal ==
    /\ lastCall.op = "none"
    /\ answer' = matchSjrJournal(query.title, query.table)
    /\ lastCall' = Call("matchSjrJournal", FALSE, <<>>)
    /\ UNCHANGED <<overrides, prefStore, databases, prefFlags, pc, local, query>>

\* a journal title and a table are given
InitJournal ==
    /\ overrides = <<>>
    /\ prefStore = EmptyObjectText
    /\ databases = <<>>
    /\ prefFlags = [k \in PrefKeys |-> TRUE]
    /\ lastCall = Call("none", FALSE, <<>>)
    /\ pc = [c \in Callers |-> "idle"]
    /\ local = [c \in Callers |-> <<>>]
    /\ query \in [title : JournalTitles, table : SjrTables]
    /\ answer = null

NextJournal ==
    \/ callSJRDatabaseMatch
    \/ callMatchFuzzy
    \/ callMatchWordOverlap
    \/ callMatchSjrJournal

SpecJournal == InitJournal /\ [][NextJournal]_vars

(***************************************************************************)
(* SpecNormalize: normalizeString is applied to strings                    *)
(***************************************************************************)
\* the longest of the strings made of NormalizeChars
MaxLen == 3

NormalizeChars == { "A", "b", "&", " ", "-", "_" }

\* "IEEE Telecommunications & Telecomunication!"
nsTelecom ==
    << "I", "E", "E", "E", " ", "T", "e", "l", "e", "c", "o", "m", "m", "u", "n", "i", "c",
       "a", "t", "i", "o", "n", "s", " ", "&", " ", "T", "e", "l", "e", "c", "o", "m", "u",
       "n", "i", "c", "a", "t", "i", "o", "n", "!" >>

\* "Tele-Communications"
nsHyphen ==
    << "T", "e", "l", "e", "-", "C", "o", "m", "m", "u", "n", "i", "c", "a", "t", "i", "o",
       "n", "s" >>

\* "a_telecommunications  (x)"
nsUnderscore ==
    << "a", "_", "t", "e", "l", "e", "c", "o", "m", "m", "u", "n", "i", "c", "a", "t", "i",
       "o", "n", "s", " ", " ", "(", "x", ")" >>

\* "telecom&munications"
nsAmpersand ==
    << "t", "e", "l", "e", "c", "o", "m", "&", "m", "u", "n", "i", "c", "a", "t", "i", "o",
       "n", "s" >>

NormalizeInputs ==
    UNION { [1..n -> NormalizeChars] : n \in 0..MaxLen }
        \cup { nsTelecom, nsHyphen, nsUnderscore, nsAmpersand }

\* normalizeString is called on the string
callNormalizeString ==
    /\ lastCall.op = "none"
    /\ answer' = normalizeString(query.title)
    /\ lastCall' = Call("normalizeString", FALSE, <<>>)
    /\ UNCHANGED <<overrides, prefStore, databases, prefFlags, pc, local, query>>

\* a string is given
InitNormalize ==
    /\ overrides = <<>>
    /\ prefStore = EmptyObjectText
    /\ databases = <<>>
    /\ prefFlags = [k \in PrefKeys |-> TRUE]
    /\ lastCall = Call("none", FALSE, <<>>)
    /\ pc = [c \in Callers |-> "idle"]
    /\ local = [c \in Callers |-> <<>>]
    /\ query \in [title : NormalizeInputs, table : {<<>>}]
    /\ answer = null

NextNormalize == callNormalizeString

SpecNormalize == InitNormalize /\ [][NextNormalize]_vars

(***************************************************************************)
(* SpecKeys: set and remove on a store that starts empty; each call records *)
(* the map it found and the forms of the titles that have been set and not *)
(* removed since.                                                          *)
(***************************************************************************)
\* the lowercase+trim forms of the titles set and not removed since
LiveKeys == IF "live" \in DOMAIN lastCall THEN lastCall.live ELSE {}

setRecorded(publicationTitle, ranking) ==
    /\ setBody(publicationTitle, ranking)
    /\ lastCall' = Call("set", TRUE,
                        [title |-> publicationTitle, ranking |-> ranking, before |-> overrides,
                         live |-> LiveKeys \cup { trim(toLowerCase(publicationTitle)) }])
    /\ UNCHANGED <<databases, prefFlags, pc, local, query, answer>>

removeRecorded(publicationTitle) ==
    /\ removeBody(publicationTitle)
    /\ lastCall' = Call("remove", TRUE,
                        [title |-> publicationTitle, before |-> overrides,
                         live |-> LiveKeys \ { trim(toLowerCase(publicationTitle)) }])
    /\ UNCHANGED <<databases, prefFlags, pc, local, query, answer>>

InitKeys == Init /\ prefStore = EmptyObjectText /\ prefFlags = [k \in PrefKeys |-> TRUE]

NextKeys ==
    \/ \E t \in Titles, r \in Rankings : setRecorded(t, r)
    \/ \E t \in Titles : removeRecorded(t)

SpecKeys == InitKeys /\ [][NextKeys]_vars

(***************************************************************************)
(* SpecTrace: the conference database's matcher is called on a title, with *)
(* and without tracing                                                     *)
(***************************************************************************)
\* COREDatabase.match is called; debugLog writes exactly if tracing is requested
callCOREDatabaseMatch(tracing) ==
    /\ lastCall.op = "none"
    /\ answer' = COREDatabase_match(query.title, query.table)
    /\ lastCall' = Call("COREDatabase.match", FALSE,
                        [tracing |-> tracing,
                         emitted |-> COREDatabase_matchLog(query.title, query.table, tracing)])
    /\ UNCHANGED <<overrides, prefStore, databases, prefFlags, pc, local, query>>

\* a conference title and a table of at most one entry are given
InitTrace ==
    /\ overrides = <<>>
    /\ prefStore = EmptyObjectText
    /\ databases = <<>>
    /\ prefFlags = [k \in PrefKeys |-> TRUE]
    /\ lastCall = Call("none", FALSE, <<>>)
    /\ pc = [c \in Callers |-> "idle"]
    /\ local = [c \in Callers |-> <<>>]
    /\ query \in [title : ConferenceTitles, table : { t \in CoreTables : Len(t) <= 1 }]
    /\ answer = null

NextTrace == \E tracing \in BOOLEAN : callCOREDatabaseMatch(tracing)

SpecTrace == InitTrace /\ [][NextTrace]_vars

(***************************************************************************)
(* SpecDegenerate: the matchers are called on titles of which cleaning and *)
(* normalization leave nothing                                             *)
(***************************************************************************)
\* " -!? "
dgPunctuation ==
    << " ", "-", "!", "?", " " >>

\* "Proceedings of the 12th Annual 2019 "
dgYears ==
    << "P", "r", "o", "c", "e", "e", "d", "i", "n", "g", "s", " ", "o", "f", " ", "t", "h",
       "e", " ", "1", "2", "t", "h", " ", "A", "n", "n", "u", "a", "l", " ", "2", "0", "1",
       "9", " " >>

\* "CCS 2023 - "
dgCodeYear ==
    << "C", "C", "S", " ", "2", "0", "2", "3", " ", "-", " " >>

DegenerateTitles == { <<>>, dgPunctuation, dgYears, dgCodeYear }

\* a degenerate title and a table of CORE entries or of SJR entries are given
InitDegenerate ==
    /\ overrides = <<>>
    /\ prefStore = EmptyObjectText
    /\ databases = <<>>
    /\ prefFlags = [k \in PrefKeys |-> TRUE]
    /\ lastCall = Call("none", FALSE, <<>>)
    /\ pc = [c \in Callers |-> "idle"]
    /\ local = [c \in Callers |-> <<>>]
    /\ query \in [title : DegenerateTitles, table : CoreTables \cup SjrTables]
    /\ answer = null

\* the conference matcher runs on the tables of CORE entries, the journal matchers
\* on the tables of SJR entries
NextDegenerate ==
    \/ query.table \in CoreTables /\ callMatchCoreConference
    \/ query.table \in SjrTables /\ callSJRDatabaseMatch
    \/ query.table \in SjrTables /\ callMatchFuzzy
    \/ query.table \in SjrTables /\ callMatchWordOverlap
    \/ query.table \in SjrTables /\ callMatchSjrJournal

SpecDegenerate == InitDegenerate /\ [][NextDegenerate]_vars

(***************************************************************************)
(* SpecOrder: three databases are registered and registered again in any   *)
(* order; each registration leaves in lastCall the ids in the order of     *)
(* their first registration since the registry was last cleared.           *)
(***************************************************************************)
\* registrations of three ids with priority 0 or 100, with and without a
\* preference key
OrderConfigs ==
    { Config(id, "Database", prefKey, TRUE, pr, "SJRDatabase.match") :
        id \in { "sjr", "core", "extra" },
        prefKey \in { null, "enableCORE" },
        pr \in { 0, 100 } }

\* the ids in the order of their first registration
RegistrationOrder == IF "order" \in DOMAIN lastCall THEN lastCall.order ELSE <<>>

registerRecorded(config) ==
    /\ databases' = IF registerThrows(config) THEN databases
                    ELSE MapSet(databases, config.id, storedConfig(config))
    /\ lastCall' = Call("register", lastCall.started,
                        [config |-> config, wasPresent |-> Has(databases, config.id),
                         order |-> IF config.id \in Range(RegistrationOrder)
                                   THEN RegistrationOrder
                                   ELSE Append(RegistrationOrder, config.id)])
    /\ UNCHANGED <<overrides, prefStore, prefFlags, pc, local, query, answer>>

clearRecorded ==
    /\ databases' = <<>>
    /\ lastCall' = Call("clear", lastCall.started, [order |-> <<>>])
    /\ UNCHANGED <<overrides, prefStore, prefFlags, pc, local, query, answer>>

InitOrder == Init /\ prefStore = EmptyObjectText

NextOrder ==
    \/ \E c \in OrderConfigs : registerRecorded(c)
    \/ clearRecorded

SpecOrder == InitOrder /\ [][NextOrder]_vars

(***************************************************************************)
(* SpecTieBreak: a matcher is called twice on a table in which several     *)
(* entries satisfy the same strategy; some titles of the table are written *)
(* like array indices, which for-in visits before all other keys.          *)
(***************************************************************************)
\* "12." and "12" normalize to the same string; "12" is an array index
keyNumberDot == << "1", "2", "." >>
keyNumber == << "1", "2" >>

TieCoreEntries ==
    { <<keyNumberDot, [rank |-> "A", acronym |-> <<>>]>>,
      <<keyNumber, [rank |-> "B", acronym |-> <<>>]>>,
      <<keyWorkshopFirst, [rank |-> "B", acronym |-> <<>>]>>,
      <<keyWorkshopLast, [rank |-> "A*", acronym |-> <<>>]>> }

TieSjrEntries ==
    { <<keyNumberDot, [quartile |-> "Q1", sjr |-> "1.0"]>>,
      <<keyNumber, [quartile |-> "Q2", sjr |-> "0.5"]>>,
      <<sjrKeyPlain, [quartile |-> "Q1", sjr |-> "1.5"]>>,
      <<sjrKeyPlainOther, [quartile |-> "Q4", sjr |-> "0.1"]>>,
      <<sjrKeyComma, [quartile |-> "Q2", sjr |-> "0.9"]>>,
      <<sjrKeyCommaOther, [quartile |-> "Q1", sjr |-> "2.0"]>> }

\* the largest number of entries of a table
MaxTieTable == 2

\* the members of a table in the order they are written in, no title twice
TieCoreTables ==
    { t \in UNION { [1..n -> TieCoreEntries] : n \in 0..MaxTieTable } :
        \A i, j \in 1..Len(t) : t[i][1] = t[j][1] => i = j }
TieSjrTables ==
    { t \in UNION { [1..n -> TieSjrEntries] : n \in 0..MaxTieTable } :
        \A i, j \in 1..Len(t) : t[i][1] = t[j][1] => i = j }

TieTitles == { keyNumber, inFourOfFive, jtReordered, jtProceedings }

JournalStrategies == { "matchExact", "matchFuzzy", "matchWordOverlap", "matchSjrJournal" }

\* how often the matcher has been called
Calls == IF "calls" \in DOMAIN lastCall THEN lastCall.calls ELSE 0

InitTieBreak ==
    /\ overrides = <<>>
    /\ prefStore = EmptyObjectText
    /\ databases = <<>>
    /\ prefFlags = [k \in PrefKeys |-> TRUE]
    /\ lastCall = Call("none", FALSE, <<>>)
    /\ pc = [c \in Callers |-> "idle"]
    /\ local = [c \in Callers |-> <<>>]
    /\ query \in [title : TieTitles, table : TieCoreTables \cup TieSjrTables]
    /\ answer = null

\* MatchingUtils.matchCoreConference is called, a first or a second time
callConferenceAgain ==
    /\ query.table \in TieCoreTables
    /\ Calls < 2
    /\ answer' = matchCoreConference(query.title, query.table)
    /\ lastCall' = Call("matchCoreConference", FALSE, [calls |-> Calls + 1, previous |-> answer])
    /\ UNCHANGED <<overrides, prefStore, databases, prefFlags, pc, local, query>>

\* one journal strategy, or MatchingUtils.matchSjrJournal, is called a first or
\* a second time
callJournalAgain(strategy) ==
    /\ query.table \in TieSjrTables
    /\ Calls < 2
    /\ lastCall.op \in { "none", strategy }
    /\ answer' = CASE strategy = "matchExact" -> matchExact(query.title, query.table)
                   [] strategy = "matchFuzzy" -> matchFuzzy(query.title, query.table)
                   [] strategy = "matchWordOverlap" -> matchWordOverlap(query.title, query.table)
                   [] strategy = "matchSjrJournal" -> matchSjrJournal(query.title, query.table)
    /\ lastCall' = Call(strategy, FALSE, [calls |-> Calls + 1, previous |-> answer])
    /\ UNCHANGED <<overrides, prefStore, databases, prefFlags, pc, local, query>>

NextTieBreak ==
    \/ callConferenceAgain
    \/ \E strategy \in JournalStrategies : callJournalAgain(strategy)

SpecTieBreak == InitTieBreak /\ [][NextTieBreak]_vars

(***************************************************************************)
(* SpecPersist: the session starts with a well-formed persisted store and  *)
(* an empty in-memory map; load, set and remove are called in any order.   *)
(* Each call leaves in lastCall the persisted value it found and whether   *)
(* load had run before it.                                                 *)
(***************************************************************************)
\* load has run in this session
Loaded == lastCall.op = "load" \/ ("loaded" \in DOMAIN lastCall /\ lastCall.loaded)

loadStored ==
    /\ overrides' = loadOutcome(prefStore).overrides
    /\ prefStore' = loadOutcome(prefStore).prefStore
    /\ lastCall' = Call("load", TRUE, [stored |-> prefStore, loaded |-> Loaded])
    /\ UNCHANGED <<databases, prefFlags, pc, local, query, answer>>

setStored(publicationTitle, ranking) ==
    /\ setBody(publicationTitle, ranking)
    /\ lastCall' = Call("set", TRUE,
                        [title |-> publicationTitle, ranking |-> ranking,
                         stored |-> prefStore, loaded |-> Loaded])
    /\ UNCHANGED <<databases, prefFlags, pc, local, query, answer>>

removeStored(publicationTitle) ==
    /\ removeBody(publicationTitle)
    /\ lastCall' = Call("remove", TRUE,
                        [title |-> publicationTitle, stored |-> prefStore, loaded |-> Loaded])
    /\ UNCHANGED <<databases, prefFlags, pc, local, query, answer>>

\* the module has just been evaluated: overrides is new Map(), the preference
\* holds the text of a flat map, and load has not run yet
InitPersist ==
    /\ Init
    /\ prefStore.kind = "object"
    /\ prefFlags = [k \in PrefKeys |-> TRUE]

NextPersist ==
    \/ loadStored
    \/ \E t \in Titles, r \in Rankings : setStored(t, r)
    \/ \E t \in Titles : removeStored(t)

SpecPersist == InitPersist /\ [][NextPersist]_vars

(***************************************************************************)
(* SpecBulk: RankingActions.updateSelectedItems on a selection of items.   *)
(* An item is [regular, title, ranking]: what isRegularItem() returns,     *)
(* what RankingEngine.extractPublicationTitle returns for it (the empty    *)
(* sequence if it has no publication title) and what                       *)
(* RankingEngine.getRanking returns for it.                                *)
(***************************************************************************)
\* the most items of a selection
MaxItems == 3

\* the number of not-found titles the summary lists
NotFoundDisplayMax == 10

ItemKinds ==
    { [regular |-> FALSE, title |-> <<"A","1">>, ranking |-> "Q1"],
      [regular |-> TRUE, title |-> <<>>, ranking |-> null],
      [regular |-> TRUE, title |-> <<"A","1">>, ranking |-> "Q1"],
      [regular |-> TRUE, title |-> <<" ","B"," ">>, ranking |-> null],
      [regular |-> TRUE, title |-> <<"B">>, ranking |-> ""] }

ItemLists == UNION { [1..n -> ItemKinds] : n \in 0..MaxItems }

NoCounts == [found |-> 0, notFound |-> 0, skipped |-> 0, notFoundList |-> <<>>]

\* the body of the loop with the second continue missing
countItem_noContinue(counts, item) ==
    LET afterSkip ==
            IF ~item.regular \/ item.title = <<>>
            THEN [counts EXCEPT !.skipped = @ + 1]
            ELSE counts
    IN  IF ~item.regular THEN afterSkip
        ELSE IF Truthy(item.ranking) THEN [afterSkip EXCEPT !.found = @ + 1]
        ELSE [afterSkip EXCEPT !.notFound = @ + 1,
                               !.notFoundList = Append(@, trim(item.title))]

\* the body of the loop for one item
countItem(counts, item) ==
    IF ~item.regular THEN [counts EXCEPT !.skipped = @ + 1]
    ELSE IF item.title = <<>> THEN [counts EXCEPT !.skipped = @ + 1]
    ELSE IF Truthy(item.ranking) THEN [counts EXCEPT !.found = @ + 1]
    ELSE [counts EXCEPT !.notFound = @ + 1,
                        !.notFoundList = Append(@, trim(item.title))]

\* for (var i = 0; i < items.length; i++)
RECURSIVE countLoop(_)
countLoop(items) ==
    IF items = <<>> THEN NoCounts
    ELSE countItem(countLoop(SubSeq(items, 1, Len(items) - 1)), items[Len(items)])

\* updateSelectedItems up to its await of the alert: for an empty selection the
\* alert "No items selected", otherwise the loop and the summary
updateSelectedItems ==
    /\ lastCall.op = "none"
    /\ answer' =
          IF Len(query.items) = 0 THEN [headline |-> "No items selected"]
          ELSE LET counts == countLoop(query.items)
               IN  [headline |-> "Rankings Check Complete",
                    total |-> Len(query.items),
                    found |-> counts.found,
                    notFound |-> counts.notFound,
                    skipped |-> counts.skipped,
                    notFoundList |-> counts.notFoundList,
                    listed |-> SubSeq(counts.notFoundList, 1,
                                      IF Len(counts.notFoundList) < NotFoundDisplayMax
                                      THEN Len(counts.notFoundList) ELSE NotFoundDisplayMax)]
    /\ pc' = [pc EXCEPT !["c1"] = "alert:await"]
    /\ lastCall' = Call("updateSelectedItems", FALSE, <<>>)
    /\ UNCHANGED <<overrides, prefStore, databases, prefFlags, local, query>>

\* the user closes the alert and the handler returns
closeAlert ==
    /\ pc["c1"] = "alert:await"
    /\ pc' = [pc EXCEPT !["c1"] = "idle"]
    /\ lastCall' = Call("return", FALSE, <<>>)
    /\ UNCHANGED <<overrides, prefStore, databases, prefFlags, local, query, answer>>

\* a selection is given
InitBulk ==
    /\ overrides = <<>>
    /\ prefStore = EmptyObjectText
    /\ databases = <<>>
    /\ prefFlags = [k \in PrefKeys |-> TRUE]
    /\ lastCall = Call("none", FALSE, <<>>)
    /\ pc = [c \in Callers |-> "idle"]
    /\ local = [c \in Callers |-> <<>>]
    /\ query \in [items : ItemLists]
    /\ answer = null

NextBulk ==
    \/ updateSelectedItems
    \/ closeAlert

SpecBulk == InitBulk /\ [][NextBulk]_vars

(***************************************************************************)
(* SpecClear: one caller sets overrides and runs                           *)
(* RankingActions.clearManualRankingForSelected on a selection of items.   *)
(* An item is [regular, title]; the handler runs to its end without        *)
(* another caller in between and leaves in lastCall the selection, the map *)
(* it found and the count it reports.                                      *)
(***************************************************************************)
\* the most items of a selection to clear
MaxSelected == 2

SelectedKinds ==
    { [regular |-> TRUE, title |-> <<"A","1">>],
      [regular |-> TRUE, title |-> <<" ","a","1"," ">>],
      [regular |-> TRUE, title |-> <<"B">>],
      [regular |-> TRUE, title |-> <<>>],
      [regular |-> FALSE, title |-> <<"B">>] }

SelectedLists == UNION { [1..n -> SelectedKinds] : n \in 0..MaxSelected }

\* publicationTitles: the trimmed titles of the regular items that have one, each
\* once, in the order a Set keeps them
RECURSIVE selectedTitles(_)
selectedTitles(items) ==
    IF items = <<>> THEN <<>>
    ELSE LET before == selectedTitles(SubSeq(items, 1, Len(items) - 1))
             item == items[Len(items)]
         IN  IF item.regular /\ item.title # <<>> /\ trim(item.title) \notin Range(before)
             THEN Append(before, trim(item.title))
             ELSE before

\* ManualOverrides.get on a given map
getFrom(m, publicationTitle) ==
    IF Has(m, normalizedTitle(publicationTitle))
    THEN Lookup(m, normalizedTitle(publicationTitle))
    ELSE undefined

\* if (ManualOverrides.get(title))
clearTest(m, title) == Truthy(getFrom(m, title))

\* for (var title of publicationTitles): the map and the count after the loop
RECURSIVE clearTitles(_, _)
clearTitles(m, titles) ==
    IF titles = <<>> THEN [overrides |-> m, cleared |-> 0]
    ELSE LET done == clearTitles(m, SubSeq(titles, 1, Len(titles) - 1))
             title == titles[Len(titles)]
         IN  IF clearTest(done.overrides, title)
             THEN [overrides |-> MapDelete(done.overrides, normalizedTitle(title)),
                   cleared |-> done.cleared + 1]
             ELSE done

\* clearManualRankingForSelected from its call to its return
clearSelected(items) ==
    /\ overrides' = IF Len(items) = 0 THEN overrides
                    ELSE clearTitles(overrides, selectedTitles(items)).overrides
    /\ prefStore' = IF Len(items) = 0
                       \/ clearTitles(overrides, selectedTitles(items)).cleared = 0
                    THEN prefStore
                    ELSE save(overrides')
    /\ lastCall' = Call("clearManualRankingForSelected", TRUE,
                        [items |-> items, before |-> overrides,
                         cleared |-> IF Len(items) = 0 THEN 0
                                     ELSE clearTitles(overrides, selectedTitles(items)).cleared])
    /\ UNCHANGED <<databases, prefFlags, pc, local, query, answer>>

InitClear == Init /\ prefStore = EmptyObjectText /\ prefFlags = [k \in PrefKeys |-> TRUE]

NextClear ==
    \/ \E t \in ConcTitles, r \in ConcRankings : set(t, r)
    \/ \E items \in SelectedLists : clearSelected(items)

SpecClear == InitClear /\ [][NextClear]_vars

(***************************************************************************)
(* Properties                                                              *)
(***************************************************************************)
MutatingOps == { "set", "remove", "clearAll" }

\* the in-memory map that a fresh load of the persisted text yields, as a mapping
Deserialized(text) == Pairs(MapFromEntries(ParsedEntries(text)))

\* C1: after set(t, r), every title with the lowercase+trim form of t resolves to
\* r, whatever the enabled databases return for it; after remove(t), t resolves
\* to what the walk over the enabled databases returns.
C1_OverridePrecedence ==
    /\ lastCall.op = "set" =>
         \A t2 \in Titles :
            trim(toLowerCase(t2)) = trim(toLowerCase(lastCall.title))
                => getRanking(t2) = lastCall.ranking
    /\ lastCall.op = "remove" =>
         getRanking(lastCall.title) = automaticRanking(lastCall.title)

\* a set of "A1" to Q1 has completed while the databases return A* for " a1 "
C1_Witness ==
    /\ lastCall.op = "set"
    /\ lastCall.title = <<"A","1">>
    /\ lastCall.ranking = "Q1"
    /\ automaticRanking(<<" ","a","1"," ">>) = "A*"
    /\ getRanking(<<" ","a","1"," ">>) = "Q1"

\* the priority a database id is registered with by its plugin
RegisteredPriority(id) == (CHOOSE c \in ReferenceConfigs : c.id = id).priority

\* C2: getEnabledDatabases lists the enabled databases in ascending order of the
\* priority they were registered with (priority 0 included), so the journal
\* database (0) comes before the conference database (100).
C2_RegisteredPriorityOrder ==
    \A i, j \in 1..Len(getEnabledDatabases) :
        RegisteredPriority(getEnabledDatabases[i].id) < RegisteredPriority(getEnabledDatabases[j].id)
            => i < j

\* C3: when set, remove or clearAll has completed, the persisted text
\* deserializes to exactly the in-memory map, all entries included.
C3_WriteThrough ==
    lastCall.op \in MutatingOps =>
        /\ ~JSONparseThrows(prefStore)
        /\ ~ObjectEntriesThrows(prefStore)
        /\ Deserialized(prefStore) = Pairs(overrides)

\* a set has completed with two entries whose order in the text is not that of the map
C3_Witness ==
    /\ lastCall.op = "set"
    /\ Len(overrides) = 2
    /\ Keys(prefStore.members) # Keys(overrides)

\* a stored value that is present and is not the text of a flat string-to-string map
NotAFlatMap(text) == text.kind \in { "array", "string", "number", "null", "invalid" }

\* C5: when the persisted value cannot be parsed as a flat string-to-string map,
\* load leaves the in-memory map empty and overwrites the persisted value with
\* the empty map's text, so that the next load does not take the error path.
C5_LoadRecovers ==
    (lastCall.op = "load" /\ NotAFlatMap(lastCall.stored)) =>
        /\ overrides = <<>>
        /\ prefStore = EmptyObjectText
        /\ ~loadOutcome(prefStore).caught

\* C6: a restart after set, remove and clearAll calls (or after a load) yields an
\* in-memory map with the keys and ranks of the map before the restart.
C6_RestartRoundTrip ==
    (lastCall.op = "restart" /\ lastCall.wasStarted) => Pairs(overrides) = lastCall.before

\* a restart has reloaded two entries, one of them with the empty rank
C6_Witness ==
    /\ lastCall.op = "restart"
    /\ lastCall.wasStarted
    /\ Len(overrides) = 2
    /\ \E i \in 1..Len(overrides) : overrides[i][2] = ""
    /\ \E i \in 1..Len(overrides) : IsArrayIndex(overrides[i][1])

\* C7: register with a config that lacks an id, a name or a matcher raises an
\* error and leaves the registered databases as they were.
C7_InvalidRegistrationRejected ==
    (/\ lastCall.op = "register"
     /\ \/ lastCall.config.id = undefined
        \/ lastCall.config.name = undefined
        \/ lastCall.config.matcher = undefined)
    => (lastCall.threw /\ databases = lastCall.before)

\* a registration without a matcher was rejected while two databases are registered
C7_Witness ==
    /\ lastCall.op = "register"
    /\ lastCall.config.matcher = undefined
    /\ lastCall.config.id = "core"
    /\ lastCall.threw
    /\ Len(databases) = 2

\* C8: the registry holds one database per id; registering an id that is present
\* raises no error, keeps the number of databases, and getDatabase(id) then
\* returns the fields of that registration.
C8_OverwriteKeepsLatestFields ==
    /\ \A i, j \in 1..Len(databases) : databases[i][1] = databases[j][1] => i = j
    /\ (lastCall.op = "register" /\ ~lastCall.threw) =>
        /\ lastCall.wasPresent => Len(databases) = lastCall.sizeBefore
        /\ getDatabase(lastCall.config.id).id = lastCall.config.id
        /\ getDatabase(lastCall.config.id).name = lastCall.config.name
        /\ getDatabase(lastCall.config.id).matcher = lastCall.config.matcher
        /\ getDatabase(lastCall.config.id).prefKey = lastCall.config.prefKey
        /\ lastCall.config.hasPriority =>
              getDatabase(lastCall.config.id).priority = lastCall.config.priority

\* C9: getEnabledDatabases holds a registered database exactly if it has no
\* preference key or its preference is true now; switching a preference changes
\* the result for the databases with that key, without a new registration.
C9_EnablementAtCallTime ==
    /\ \A i \in 1..Len(databases) :
          (databases[i][2] \in Range(getEnabledDatabases))
              <=> (databases[i][2].prefKey = null \/ prefFlags[databases[i][2].prefKey])
    /\ lastCall.op = "setPref" =>
          \A i \in 1..Len(databases) :
              databases[i][2].prefKey = lastCall.prefKey =>
                  ((databases[i][2] \in Range(getEnabledDatabases))
                      <=> (databases[i][2] \notin Range(lastCall.before)))

\* a preference was switched off: one database left the result, one without a key stays
C9_Witness ==
    /\ lastCall.op = "setPref"
    /\ Len(databases) = 2
    /\ Len(lastCall.before) = 2
    /\ Len(getEnabledDatabases) = 1
    /\ getEnabledDatabases[1].prefKey = null

\* the persisted text as a map
Persisted == MapFromEntries(ParsedEntries(prefStore))

\* C4: with callers whose set and remove calls interleave at their awaits, the
\* persisted text holds the latest update (the rank of the latest set, no entry
\* for the latest removed title) and equals the in-memory map, at every await
\* and when all calls have returned.
C4_NoLostUpdate ==
    /\ lastCall.op = "set" =>
          /\ Has(Persisted, normalizedTitle(lastCall.title))
          /\ Lookup(Persisted, normalizedTitle(lastCall.title)) = lastCall.ranking
    /\ lastCall.op = "remove" => ~Has(Persisted, normalizedTitle(lastCall.title))
    /\ lastCall.op \in { "set", "remove" } =>
          /\ ~JSONparseThrows(prefStore)
          /\ Pairs(Persisted) = Pairs(overrides)

\* a remove of " a1 " was issued while a set of "A1", by another caller, has not
\* returned, and an override of another title is in the map
C4_Witness ==
    /\ pc["c1"] = "set:await"
    /\ pc["c2"] = "remove:await"
    /\ local["c1"].title = <<"A","1">>
    /\ local["c2"].title = <<" ","a","1"," ">>
    /\ lastCall.op = "remove"
    /\ Len(overrides) = 1

\* the entries of the table of the query
TableEntries == Range(ObjectFromEntries(query.table))

\* whether entry e satisfies strategy k for the title of the query: 1 exact,
\* 2 table title in input, 3 input in table title, 4 word overlap, 5 the only
\* entry with the input's acronym of four or more characters
Satisfies(k, e) ==
    IF k = 5
    THEN /\ extractAcronym(query.title) # <<>>
         /\ Len(extractAcronym(query.title)) >= 4
         /\ e[2].acronym = extractAcronym(query.title)
         /\ \A e2 \in TableEntries : e2[2].acronym = extractAcronym(query.title) => e2 = e
    ELSE CoreHit(k, e, normalizeString(cleanConferenceTitle(query.title)))

SatisfiedStrategies == { k \in 1..5 : \E e \in TableEntries : Satisfies(k, e) }

\* C10: matchCoreConference returns the rank of an entry that satisfies the
\* earliest of the strategies exact, substring, reverse substring, word overlap,
\* acronym that any entry of the table satisfies, whatever the order of the
\* entries; it returns null when no entry satisfies any strategy.
C10_EarliestStrategyWins ==
    lastCall.op = "matchCoreConference" =>
        IF SatisfiedStrategies = {} THEN answer = null
        ELSE \E e \in TableEntries :
                /\ Satisfies(SetMin(SatisfiedStrategies), e)
                /\ answer = e[2].rank

\* the first entry of the table satisfies only word overlap and acronym, the second
\* one the substring strategy, and the rank of the second was returned
C10_Witness ==
    /\ lastCall.op = "matchCoreConference"
    /\ Len(query.table) = 2
    /\ ObjectFromEntries(query.table) = query.table
    /\ \A k \in 1..3 : ~Satisfies(k, query.table[1])
    /\ Satisfies(4, query.table[1])
    /\ Satisfies(5, query.table[1])
    /\ Satisfies(2, query.table[2])
    /\ answer = query.table[2][2].rank
    /\ answer # query.table[1][2].rank

\* the entries of the table whose stored acronym is the acronym of the title
SameAcronym == { e \in TableEntries : e[2].acronym = extractAcronym(query.title) }

\* C11: when no entry satisfies one of the strategies 1 to 4, matchCoreConference
\* returns the rank of the only entry whose acronym is the title's acronym of four
\* or more characters; it returns null when several entries or none have that
\* acronym, when the acronym has two or three characters, and when there is none.
C11_AcronymTiebreak ==
    (/\ lastCall.op = "matchCoreConference"
     /\ \A k \in 1..4 : \A e \in TableEntries : ~Satisfies(k, e))
    => IF /\ extractAcronym(query.title) # <<>>
          /\ Len(extractAcronym(query.title)) >= 4
          /\ Cardinality(SameAcronym) = 1
       THEN \A e \in SameAcronym : answer = e[2].rank
       ELSE answer = null

\* two entries share the acronym CODM of the title, no other strategy applies,
\* and null was returned
C11_Witness ==
    /\ lastCall.op = "matchCoreConference"
    /\ \A k \in 1..4 : \A e \in TableEntries : ~Satisfies(k, e)
    /\ extractAcronym(query.title) = <<"C", "O", "D", "M">>
    /\ Cardinality(SameAcronym) = 2
    /\ answer = null

\* the words of more than three characters of the normalized table title before
\* its first comma
KeyWords(e) == Words(normalizeString(trim(BeforeComma(e[1]))))

\* the words of more than three characters of the cleaned, normalized title
InputWords == Words(normalizeString(cleanConferenceTitle(query.title)))

\* the acceptance of an entry by the word-overlap strategy: five or more words of
\* the table title, 85% of them in the input, and as many as 80% of the input's words
OverlapAccepts(e) ==
    /\ Len(KeyWords(e)) >= 5
    /\ MatchCount(KeyWords(e), InputWords) * 100 >= 85 * Len(KeyWords(e))
    /\ MatchCount(KeyWords(e), InputWords) * 100 >= 80 * Len(InputWords)

\* C12: the journal word-overlap strategy accepts an entry exactly if the title
\* before the comma has five or more words of more than three characters, at
\* least 85% of them occur in the input, and they are at least 80% of the input's
\* words, both thresholds included.
C12_JournalOverlapAcceptance ==
    lastCall.op = "matchWordOverlap" =>
        ((answer # null) <=> (\E e \in TableEntries : OverlapAccepts(e)))

\* C13: normalizeString applied to a result of normalizeString returns that result.
C13_NormalizeIdempotent ==
    lastCall.op = "normalizeString" => normalizeString(answer) = answer

\* a string with an ampersand, punctuation and two spellings of telecommunications
\* was normalized to a string other than the input
C13_Witness ==
    /\ lastCall.op = "normalizeString"
    /\ query.title = nsTelecom
    /\ answer # query.title
    /\ Contains(answer, LitCommunications)
    /\ ~Contains(answer, LitTelecom)

\* C14: when clearAll has completed, count() is 0, has(t) is false and get(t) is
\* undefined for every title, and the persisted text is that of the empty map.
C14_ClearAllEmpties ==
    lastCall.op = "clearAll" =>
        /\ count = 0
        /\ \A t \in Titles : ~has(t) /\ get(t) = undefined
        /\ prefStore = EmptyObjectText
        /\ Deserialized(prefStore) = {}

\* clearAll has completed on a map of two overrides
C14_Witness ==
    /\ lastCall.op = "clearAll"
    /\ Cardinality(lastCall.before) = 2
    /\ overrides = <<>>

\* the lowercase+trim form of a title
Form(t) == trim(toLowerCase(t))

\* get and has of a title in the map as it was before the latest call
GetBefore(t) == IF Has(lastCall.before, Form(t)) THEN Lookup(lastCall.before, Form(t)) ELSE undefined

HasBefore(t) == Has(lastCall.before, Form(t))

\* C15: a set(t1, r) makes get return r and has return true for the titles with
\* the lowercase+trim form of t1 and leaves get and has of every other title (one
\* that differs in punctuation, too) as they were; count() is the number of
\* distinct lowercase+trim forms set and not removed since.
C15_KeyComparison ==
    /\ count = Cardinality(LiveKeys)
    /\ lastCall.op = "set" =>
          \A t2 \in Titles :
              IF Form(t2) = Form(lastCall.title)
              THEN get(t2) = lastCall.ranking /\ has(t2)
              ELSE get(t2) = GetBefore(t2) /\ has(t2) = HasBefore(t2)
    /\ lastCall.op = "remove" =>
          \A t2 \in Titles :
              IF Form(t2) = Form(lastCall.title)
              THEN get(t2) = undefined /\ ~has(t2)
              ELSE get(t2) = GetBefore(t2) /\ has(t2) = HasBefore(t2)

\* "a1." has the override C and " a1 " was set to Q1: two records, and "A1" has Q1
C15_Witness ==
    /\ lastCall.op = "set"
    /\ lastCall.title = <<" ","a","1"," ">>
    /\ lastCall.ranking = "Q1"
    /\ get(<<"a","1",".">>) = "C"
    /\ get(<<"A","1">>) = "Q1"
    /\ count = 2

\* C16: a call of the conference database's matcher that does not request tracing
\* emits no record to any sink.
C16_NoTraceUnlessRequested ==
    (lastCall.op = "COREDatabase.match" /\ ~lastCall.tracing) => lastCall.emitted = <<>>

\* what cleaning and normalization leave of a title
CleanedNormalized(t) == normalizeString(cleanConferenceTitle(t))

MatcherOps ==
    { "matchCoreConference", "SJRDatabase.match", "matchFuzzy", "matchWordOverlap",
      "matchSjrJournal" }

MatchingSources(dbs, t) ==
    { i \in 1..Len(dbs) : callMatcher(dbs[i].matcher, t) # null }

\* the ids of the first n databases of a list
FirstIds(dbs, n) == [i \in 1..n |-> dbs[i].id]

\* C18: for a title without an override, resolution returns the result of the
\* first database in getEnabledDatabases order whose matcher returns a result and
\* calls no database after it; when no enabled database matches, or none is
\* enabled or registered, every enabled database is called and the result is null.
C18_SourceWalk ==
    LET dbs == getEnabledDatabases
    IN  \A t \in Titles :
            ~has(t) =>
                LET hits == MatchingSources(dbs, t)
                IN  IF hits = {}
                    THEN /\ getRanking(t) = null
                         /\ walkCalls(dbs, t) = FirstIds(dbs, Len(dbs))
                    ELSE /\ getRanking(t) = callMatcher(dbs[SetMin(hits)].matcher, t)
                         /\ walkCalls(dbs, t) = FirstIds(dbs, SetMin(hits))

\* both databases are enabled and both match "A1", which has no override: the
\* result is that of the first and the second is not called
C18_Witness ==
    /\ ~has(<<"A","1">>)
    /\ Len(getEnabledDatabases) = 2
    /\ MatchingSources(getEnabledDatabases, <<"A","1">>) = {1, 2}
    /\ callMatcher(getEnabledDatabases[1].matcher, <<"A","1">>)
            # callMatcher(getEnabledDatabases[2].matcher, <<"A","1">>)
    /\ getRanking(<<"A","1">>) = callMatcher(getEnabledDatabases[1].matcher, <<"A","1">>)
    /\ walkCalls(getEnabledDatabases, <<"A","1">>) = << getEnabledDatabases[1].id >>

\* a title without an override resolves to null while no database is registered,
\* and while the only registered database is disabled
C18_WitnessNoSource ==
    /\ Len(databases) = 1
    /\ getEnabledDatabases = <<>>
    /\ ~has(<<"A","1">>)
    /\ getRanking(<<"A","1">>) = null

\* the place of an id in the order of first registration
RegisteredAt(id) == SetMin({ i \in 1..Len(RegistrationOrder) : RegistrationOrder[i] = id })

\* C19: of two enabled databases with equal priority, getEnabledDatabases lists
\* first the one whose id was registered first, also when one of them has been
\* registered again under the same id.
C19_TiesKeepRegistrationOrder ==
    LET enabled == getEnabledDatabases
    IN  \A i, j \in 1..Len(enabled) :
            (i < j /\ enabled[i].priority = enabled[j].priority)
                => RegisteredAt(enabled[i].id) < RegisteredAt(enabled[j].id)

\* the id registered first has just been registered again; it ties with the id
\* registered last, a database of lower priority value was registered between
\* them, and all three are enabled
C19_Witness ==
    /\ lastCall.op = "register"
    /\ lastCall.wasPresent
    /\ Len(RegistrationOrder) = 3
    /\ lastCall.config.id = RegistrationOrder[1]
    /\ Len(getEnabledDatabases) = 3
    /\ getEnabledDatabases[1].id = RegistrationOrder[2]
    /\ getEnabledDatabases[2].id = RegistrationOrder[1]
    /\ getEnabledDatabases[3].id = RegistrationOrder[3]
    /\ getEnabledDatabases[2].priority = getEnabledDatabases[3].priority

\* the strategy of matchSjrJournal that decides: the first one some entry satisfies
JournalStrategyUsed ==
    IF \E i \in 1..Len(query.table) : SjrJournalExactHit(query.table[i], query.title) THEN 1
    ELSE IF \E i \in 1..Len(query.table) : SjrJournalCleanedHit(query.table[i], query.title) THEN 2
    ELSE 3

\* entry i of the table, counted as written, satisfies the strategy that decided
\* the call
TieHit(i) ==
    LET e == query.table[i]
    IN  CASE lastCall.op = "matchCoreConference" ->
                /\ CoreStrategyUsed(query.title, query.table) \in 1..4
                /\ CoreHit(CoreStrategyUsed(query.title, query.table), e,
                           CleanedNormalized(query.title))
          [] lastCall.op = "matchExact" -> SjrExactHit(e, query.title)
          [] lastCall.op = "matchFuzzy" -> SjrFuzzyHit(e, query.title)
          [] lastCall.op = "matchWordOverlap" -> SjrOverlapHit(e, query.title)
          [] lastCall.op = "matchSjrJournal" ->
                CASE JournalStrategyUsed = 1 -> SjrJournalExactHit(e, query.title)
                  [] JournalStrategyUsed = 2 -> SjrJournalCleanedHit(e, query.title)
                  [] OTHER -> SjrJournalOverlapHit(e, query.title)
          [] OTHER -> FALSE

TieHits == { i \in 1..Len(query.table) : TieHit(i) }

\* what the called matcher returns for entry i
TieResult(i) ==
    CASE lastCall.op = "matchCoreConference" -> query.table[i][2].rank
      [] lastCall.op = "matchSjrJournal" -> query.table[i][2]
      [] OTHER -> SjrResult(query.table[i])

\* for-in visits entry i before entry j: array indices in ascending order, then
\* the other titles in the order they are written in
VisitedBefore(i, j) ==
    LET ki == query.table[i][1]
        kj == query.table[j][1]
    IN  IF IsArrayIndex(ki) /\ IsArrayIndex(kj) THEN IndexValue(ki) < IndexValue(kj)
        ELSE IF IsArrayIndex(ki) # IsArrayIndex(kj) THEN IsArrayIndex(ki)
        ELSE i < j

FirstVisited == CHOOSE i \in TieHits : \A j \in TieHits \ {i} : VisitedBefore(i, j)

C20_WitnessIndexFirst ==
    /\ lastCall.op = "matchCoreConference"
    /\ query.title = keyNumber
    /\ Len(query.table) = 2
    /\ query.table[1][1] = keyNumberDot
    /\ TieHits = {1, 2}
    /\ answer = query.table[2][2].rank
    /\ answer # query.table[1][2].rank

\* C21: the output of normalizeString consists of lowercase letters, digits and
\* single spaces between tokens only: no other character, no space at either end,
\* no two spaces in a row.
C21_CanonicalForm ==
    lastCall.op = "normalizeString" =>
        /\ \A i \in 1..Len(answer) : IsLower(answer[i]) \/ IsDigit(answer[i]) \/ answer[i] = " "
        /\ answer # <<>> => (answer[1] # " " /\ answer[Len(answer)] # " ")
        /\ \A i \in 1..(Len(answer) - 1) : ~(answer[i] = " " /\ answer[i + 1] = " ")

\* the parts of the canonical form the code does establish: nothing but word
\* characters and single inner spaces
C21_WordCharactersOnly ==
    lastCall.op = "normalizeString" =>
        /\ \A i \in 1..Len(answer) :
                IsLower(answer[i]) \/ IsDigit(answer[i]) \/ answer[i] \in {" ", "_"}
        /\ answer # <<>> => (answer[1] # " " /\ answer[Len(answer)] # " ")
        /\ \A i \in 1..(Len(answer) - 1) : ~(answer[i] = " " /\ answer[i + 1] = " ")

\* "a_telecommunications (x)" was normalized and the underscore is in the output
C21_UnderscoreKept ==
    /\ lastCall.op = "normalizeString"
    /\ query.title = nsUnderscore
    /\ "_" \in Range(answer)

\* every entry of the persisted value the last call found, other than the key the
\* call set or removed, is in the persisted value now, with the same rank
StoredEntriesKept ==
    LET found == MapFromEntries(ParsedEntries(lastCall.stored))
    IN  \A i \in 1..Len(found) :
            \/ /\ lastCall.op \in { "set", "remove" }
               /\ found[i][1] = normalizedTitle(lastCall.title)
            \/ /\ Has(Persisted, found[i][1])
               /\ Lookup(Persisted, found[i][1]) = found[i][2]

\* C22: an override of the well-formed persisted store stays in it across load,
\* set and remove calls in any order, a set or remove before the session's load
\* included, unless the call sets or removes that same key.
C22_PersistedOverridesKept ==
    lastCall.op \in { "load", "set", "remove" } => StoredEntriesKept

\* the same for the calls made after load has run in the session
C22_KeptOnceLoaded ==
    (lastCall.op \in { "load", "set", "remove" } /\ (lastCall.op = "load" \/ lastCall.loaded))
        => StoredEntriesKept

\* a set of another title was made before load and the persisted entries are gone
C22_LostBeforeLoad ==
    /\ lastCall.op = "set"
    /\ ~lastCall.loaded
    /\ Len(MapFromEntries(ParsedEntries(lastCall.stored))) = 2
    /\ Len(Persisted) = 1

\* the selected items that are not regular or have no publication title
SkippedItems ==
    { i \in 1..Len(query.items) : ~query.items[i].regular \/ query.items[i].title = <<>> }

\* C23: when updateSelectedItems has finished its loop over n selected items,
\* found + notFound + skipped = n, the not-found list has notFound entries, and
\* the skipped items are exactly those that are not regular or have no
\* publication title.
C23_BulkAccounting ==
    (lastCall.op \in { "updateSelectedItems", "return" } /\ Len(query.items) > 0) =>
        /\ answer.total = Len(query.items)
        /\ answer.found + answer.notFound + answer.skipped = Len(query.items)
        /\ Len(answer.notFoundList) = answer.notFound
        /\ answer.skipped = Cardinality(SkippedItems)

\* three items were checked: a regular one without a publication title was
\* skipped, one whose rank is the empty string counts as not found, one was found
C23_Witness ==
    /\ lastCall.op = "updateSelectedItems"
    /\ Len(query.items) = 3
    /\ answer.found = 1
    /\ answer.notFound = 1
    /\ answer.skipped = 1
    /\ \E i \in 1..3 : query.items[i].regular /\ query.items[i].title = <<>>
    /\ answer.notFoundList = << <<"B">> >>

\* the trimmed publication titles of the selected regular items
ClearedTitles ==
    { trim(lastCall.items[i].title) :
        i \in { j \in 1..Len(lastCall.items) :
                  lastCall.items[j].regular /\ lastCall.items[j].title # <<>> } }

\* the keys of the map that no selected title has
OtherKeys(m) == { k \in Range(Keys(m)) : \A t \in ClearedTitles : normalizedTitle(t) # k }

\* the overrides of titles that are not selected are as they were before the call
OthersUnchanged ==
    /\ OtherKeys(overrides) = OtherKeys(lastCall.before)
    /\ \A k \in OtherKeys(overrides) : Lookup(overrides, k) = Lookup(lastCall.before, k)

\* C24: after clearManualRankingForSelected no publication title of a selected
\* regular item has an override, whatever rank was stored for it; the reported
\* count is the number of distinct selected titles that had an override before the
\* call; overrides of the other titles are unchanged.
C24_ClearingComplete ==
    lastCall.op = "clearManualRankingForSelected" =>
        /\ \A t \in ClearedTitles : ~has(t)
        /\ lastCall.cleared =
              Cardinality({ t \in ClearedTitles : Has(lastCall.before, normalizedTitle(t)) })
        /\ OthersUnchanged

\* what the code does establish: no selected title keeps an override with a
\* non-empty rank, the count is the number of keys removed, and the map, the
\* persisted text and the other titles' overrides are consistent
C24_NonEmptyRanksCleared ==
    lastCall.op = "clearManualRankingForSelected" =>
        /\ \A t \in ClearedTitles : ~Truthy(get(t))
        /\ lastCall.cleared = Len(lastCall.before) - Len(overrides)
        /\ OthersUnchanged
        /\ Deserialized(prefStore) = Pairs(overrides)

\* the title "B" had the override "" before the call, was selected, and still has
\* an override after it; the count is 0
C24_EmptyRankKept ==
    /\ lastCall.op = "clearManualRankingForSelected"
    /\ <<"B">> \in ClearedTitles
    /\ getFrom(lastCall.before, <<"B">>) = ""
    /\ has(<<"B">>)
    /\ lastCall.cleared = 0

====
